---------------------------- MODULE Spec2Model ----------------------------
(***************************************************************************)
(* The conversation-state / intent-routing core of the Teams bot           *)
(* (src/app.py): the BotState table store, the role registry, the trigger  *)
(* resolution functions and on_turn.                                       *)
(*                                                                         *)
(* Text is a sequence of one-character strings, so that lower(), strip(),  *)
(* split(), startswith() and the substring test are computed as Python     *)
(* computes them.  An LLM answer is an opaque text [id, len]: the first    *)
(* len characters of the text called id.                                   *)
(***************************************************************************)
EXTENDS Integers, Sequences, FiniteSets, TLC

VARIABLES
    now,                    \* time.time()
    pending_table,          \* BotState, partition "pending_role"
    refinement_table,       \* BotState, partition "refinement"
    bot_roles,              \* BotRoles, partition "roles": its entities
    table_service_client,   \* the process's storage client, None if unconfigured
    hash_seed,              \* the process's string-hash secret
    roles_cache,            \* the process's role cache
    roles_cache_timestamp,
    last,                   \* what the latest turn was and did
    loader,                 \* a load_roles_from_table call in progress
    reader,                 \* a caller of get_roles going through the mapping
    cv,                     \* an LLM response on its way to a document
    cv_outputs,             \* the blob container "cv-outputs" and its uploads
    inflight                \* message turns whose handling has begun

store_vars == <<pending_table, refinement_table, bot_roles>>

process_vars == <<table_service_client, hash_seed, roles_cache, roles_cache_timestamp>>

reload_vars == <<loader, reader>>

aux_vars == <<cv, cv_outputs, inflight>>

vars == <<now, store_vars, process_vars, last, reload_vars, aux_vars>>

(***************************************************************************)
(* Bounds of the model and constants of the program.                       *)
(***************************************************************************)
MaxTime == 2100

\* The reformat runs a behaviour makes.
MaxUploads == 3

CACHE_TTL_SECONDS == 300

PENDING_ROLE_TTL_SECONDS == 300

REFINEMENT_TTL_SECONDS == 1800

\* Python's None, as a role id and as a text.
None == "None"

NoneText == <<"<None>">>

(***************************************************************************)
(* Python string operations on character sequences.                        *)
(***************************************************************************)
UpperToLower ==
    [c \in {"A", "B", "C", "D", "E", "F", "G", "H", "I", "J", "K", "L", "M",
            "N", "O", "P", "Q", "R", "S", "T", "U", "V", "W", "X", "Y", "Z"} |->
       CASE c = "A" -> "a" [] c = "B" -> "b" [] c = "C" -> "c" [] c = "D" -> "d"
         [] c = "E" -> "e" [] c = "F" -> "f" [] c = "G" -> "g" [] c = "H" -> "h"
         [] c = "I" -> "i" [] c = "J" -> "j" [] c = "K" -> "k" [] c = "L" -> "l"
         [] c = "M" -> "m" [] c = "N" -> "n" [] c = "O" -> "o" [] c = "P" -> "p"
         [] c = "Q" -> "q" [] c = "R" -> "r" [] c = "S" -> "s" [] c = "T" -> "t"
         [] c = "U" -> "u" [] c = "V" -> "v" [] c = "W" -> "w" [] c = "X" -> "x"
         [] c = "Y" -> "y" [] c = "Z" -> "z"]

\* str.lower()
Lower(s) ==
    [i \in 1..Len(s) |-> IF s[i] \in DOMAIN UpperToLower THEN UpperToLower[s[i]] ELSE s[i]]

IsSpace(c) == c \in {" ", "\n", "\t", "\r"}

RECURSIVE LStrip(_)
LStrip(s) == IF s # <<>> /\ IsSpace(Head(s)) THEN LStrip(Tail(s)) ELSE s

RECURSIVE RStrip(_)
RStrip(s) ==
    IF s # <<>> /\ IsSpace(s[Len(s)]) THEN RStrip(SubSeq(s, 1, Len(s) - 1)) ELSE s

\* str.strip()
Strip(s) == RStrip(LStrip(s))

\* The first word of a text that starts with a non-space character.
RECURSIVE TakeWord(_)
TakeWord(s) ==
    IF s = <<>> \/ IsSpace(Head(s)) THEN <<>> ELSE <<Head(s)>> \o TakeWord(Tail(s))

\* str.split() with no argument: the maximal runs of non-space characters.
RECURSIVE Split(_)
Split(s) ==
    LET t == LStrip(s)
        w == TakeWord(t)
    IN  IF t = <<>> THEN <<>>
        ELSE <<w>> \o Split(SubSeq(t, Len(w) + 1, Len(t)))

\* The characters of s before its first comma.
RECURSIVE TakeField(_)
TakeField(s) ==
    IF s = <<>> \/ Head(s) = "," THEN <<>> ELSE <<Head(s)>> \o TakeField(Tail(s))

\* s.split(",")
RECURSIVE SplitComma(_)
SplitComma(s) ==
    LET f == TakeField(s)
    IN  IF Len(f) = Len(s) THEN <<s>>
        ELSE <<f>> \o SplitComma(SubSeq(s, Len(f) + 2, Len(s)))

\* ' '.join(words)
RECURSIVE JoinSpace(_)
JoinSpace(words) ==
    IF words = <<>> THEN <<>>
    ELSE IF Len(words) = 1 THEN words[1]
    ELSE words[1] \o <<" ">> \o JoinSpace(Tail(words))

\* sep.join(parts) for the separator "\n\n"
RECURSIVE JoinBlankLine(_)
JoinBlankLine(parts) ==
    IF parts = <<>> THEN <<>>
    ELSE IF Len(parts) = 1 THEN parts[1]
    ELSE parts[1] \o <<"\n", "\n">> \o JoinBlankLine(Tail(parts))

\* s.startswith(p)
StartsWith(s, p) == Len(s) >= Len(p) /\ SubSeq(s, 1, Len(p)) = p

\* needle in hay
Contains(needle, hay) ==
    \E i \in 1..(Len(hay) - Len(needle) + 1) : SubSeq(hay, i, i + Len(needle) - 1) = needle

\* Python truth of a text: None and "" are false.
Truthy(s) == s # <<>> /\ s # NoneText

\* text[:n] of an opaque text [id, len]
Slice(o, n) == [o EXCEPT !.len = IF o.len > n THEN n ELSE o.len]

(***************************************************************************)
(* The role registry: an insertion-ordered mapping, a sequence of roles.   *)
(***************************************************************************)
get_default_roles ==
    << [id |-> "spec", name |-> "CV to Spec Email", trigger |-> <<"s", "p", "e", "c">>,
        aliases |-> <<<<"c", "v">>, <<"c", "a", "n", "d", "i", "d", "a", "t", "e">>, <<"s", "p", "e", "c", "i", "f", "i", "c", "a", "t", "i", "o", "n">>>>,
        output_type |-> ""],
       [id |-> "profile", name |-> "Candidate Profile", trigger |-> <<"p", "r", "o", "f", "i", "l", "e">>,
        aliases |-> <<<<"b", "l", "u", "r", "b">>>>,
        output_type |-> ""],
       [id |-> "ad", name |-> "Job Advert", trigger |-> <<"a", "d">>,
        aliases |-> <<<<"a", "d", "v", "e", "r", "t">>, <<"j", "o", "b", "a", "d">>>>,
        output_type |-> ""],
       [id |-> "jd", name |-> "Job Description", trigger |-> <<"j", "d">>,
        aliases |-> <<<<"j", "o", "b", "d", "e", "s", "c">>>>,
        output_type |-> ""],
       [id |-> "pitch", name |-> "Candidate Pitch Script", trigger |-> <<"p", "i", "t", "c", "h">>,
        aliases |-> <<<<"s", "c", "r", "i", "p", "t">>, <<"s", "e", "l", "l">>>>,
        output_type |-> ""],
       [id |-> "outreach", name |-> "LinkedIn Outreach", trigger |-> <<"o", "u", "t", "r", "e", "a", "c", "h">>,
        aliases |-> <<<<"l", "i", "n", "k", "e", "d", "i", "n">>, <<"i", "n", "m", "a", "i", "l">>>>,
        output_type |-> ""],
       [id |-> "reformat", name |-> "CV Reformat", trigger |-> <<"r", "e", "f", "o", "r", "m", "a", "t">>,
        aliases |-> <<<<"f", "o", "r", "m", "a", "t">>, <<"t", "e", "m", "p", "l", "a", "t", "e">>>>,
        output_type |-> "word"] >>

\* [a.strip() for a in aliases.split(",") if a.strip()]
RECURSIVE StripNonEmpty(_)
StripNonEmpty(parts) ==
    IF parts = <<>> THEN <<>>
    ELSE IF Strip(Head(parts)) = <<>> THEN StripNonEmpty(Tail(parts))
    ELSE <<Strip(Head(parts))>> \o StripNonEmpty(Tail(parts))

\* The role built from one BotRoles entity.  A role loaded from the table
\* has no "output_type" key: role.get("output_type") is None.
RoleOfEntity(entity) ==
    [id |-> entity.RowKey, name |-> entity.Name, trigger |-> entity.Trigger,
     aliases |-> StripNonEmpty(SplitComma(entity.Aliases)),
     output_type |-> None]

\* The mapping load_roles_from_table builds from the queried entities: the
\* active ones, in query order.
RECURSIVE ActiveRoles(_)
ActiveRoles(entities) ==
    IF entities = <<>> THEN <<>>
    ELSE IF Head(entities).IsActive
    THEN <<RoleOfEntity(Head(entities))>> \o ActiveRoles(Tail(entities))
    ELSE ActiveRoles(Tail(entities))

\* load_roles_from_table, with the query of the BotRoles entities either
\* raising (fails) or returning them: the mapping returned and the cache
\* after the call.
load_roles_from_table(cache, cache_timestamp, entities, fails, time) ==
    LET roles == ActiveRoles(entities)
        unchanged == [roles_cache |-> cache, roles_cache_timestamp |-> cache_timestamp]
    IN  IF table_service_client = None
        THEN [roles |-> get_default_roles] @@ unchanged
        ELSE IF table_service_client = "client" /\ ~fails /\ roles # <<>>
        THEN [roles |-> roles, roles_cache |-> roles, roles_cache_timestamp |-> time]
        ELSE IF cache # <<>>
        THEN [roles |-> cache] @@ unchanged
        ELSE [roles |-> get_default_roles] @@ unchanged

\* get_roles that still serves a cache exactly CACHE_TTL_SECONDS old.
get_roles_inclusive(cache, cache_timestamp, entities, fails, time) ==
    IF cache # <<>> /\ time - cache_timestamp <= CACHE_TTL_SECONDS
    THEN [roles |-> cache, roles_cache |-> cache, roles_cache_timestamp |-> cache_timestamp]
    ELSE load_roles_from_table(cache, cache_timestamp, entities, fails, time)

\* get_roles: the cache while it is non-empty and fresh, a load otherwise.
get_roles(cache, cache_timestamp, entities, fails, time) ==
    IF cache # <<>> /\ time - cache_timestamp < CACHE_TTL_SECONDS
    THEN [roles |-> cache, roles_cache |-> cache, roles_cache_timestamp |-> cache_timestamp]
    ELSE load_roles_from_table(cache, cache_timestamp, entities, fails, time)

\* role_id in roles
HasRole(roles, role_id) == \E i \in 1..Len(roles) : roles[i].id = role_id

\* roles[role_id]
RoleOf(roles, role_id) == roles[CHOOSE i \in 1..Len(roles) : roles[i].id = role_id]

\* roles[role_id] = {...} on a dict: the key keeps its place if it is there.
PutRole(d, role) ==
    IF HasRole(d, role.id)
    THEN [i \in 1..Len(d) |-> IF d[i].id = role.id THEN role ELSE d[i]]
    ELSE Append(d, role)

\* The loop body storing into the module's cache instead of the local dict.
store_role_in_cache(local, cache, role) == <<local, PutRole(cache, role)>>

\* Line 227: the loop body stores into the local dict roles;
\* <<the local dict, the dict roles_cache names>> after the statement.
store_role(local, cache, role) == <<PutRole(local, role), cache>>

\* d[key] = value on an insertion-ordered dict, a sequence of <<key, value>>:
\* an existing key keeps its position and takes the new value.
DictPut(d, key, value) ==
    IF \E i \in 1..Len(d) : d[i][1] = key
    THEN [i \in 1..Len(d) |-> IF d[i][1] = key THEN <<key, value>> ELSE d[i]]
    ELSE Append(d, <<key, value>>)

\* key in d
DictHas(d, key) == \E i \in 1..Len(d) : d[i][1] = key

\* d[key]
DictGet(d, key) == d[CHOOSE i \in 1..Len(d) : d[i][1] = key][2]

RECURSIVE PutAliases(_, _, _)
PutAliases(d, aliases, role_id) ==
    IF aliases = <<>> THEN d
    ELSE PutAliases(DictPut(d, Lower(Head(aliases)), role_id), Tail(aliases), role_id)

\* The lookup dictionary resolve_role and check_explicit_trigger build: each
\* role's trigger, then its aliases, roles in mapping order.
RECURSIVE BuildTriggers(_, _)
BuildTriggers(d, roles) ==
    IF roles = <<>> THEN d
    ELSE LET role == Head(roles)
         IN  BuildTriggers(
                 PutAliases(DictPut(d, Lower(role.trigger), role.id), role.aliases, role.id),
                 Tail(roles))

trigger_to_role(roles) == BuildTriggers(<<>>, roles)

(***************************************************************************)
(* Trigger resolution.                                                     *)
(***************************************************************************)
\* FirstScanHit with the scan taking the last match instead of the first.
LastScanHit(d, message_lower) ==
    CHOOSE i \in 1..Len(d) :
        /\ Contains(d[i][1], message_lower)
        /\ \A j \in (i + 1)..Len(d) : ~Contains(d[j][1], message_lower)

\* The first trigger, in dictionary order, that is a substring of the text.
FirstScanHit(d, message_lower) ==
    CHOOSE i \in 1..Len(d) :
        /\ Contains(d[i][1], message_lower)
        /\ \A j \in 1..(i - 1) : ~Contains(d[j][1], message_lower)

\* check_explicit_trigger that goes on to the scan of the whole message.
check_explicit_trigger_scanning(roles, message) ==
    IF message = <<>> THEN None
    ELSE LET message_lower == Strip(Lower(message))
             words == Split(message_lower)
             d == trigger_to_role(roles)
         IN  IF /\ words # <<>>
                /\ Len(words[1]) > 1
                /\ words[1][1] \in {"/", "!"}
                /\ DictHas(d, Tail(words[1]))
             THEN DictGet(d, Tail(words[1]))
             ELSE IF words # <<>> /\ DictHas(d, words[1])
             THEN DictGet(d, words[1])
             ELSE IF \E i \in 1..Len(d) : Contains(d[i][1], message_lower)
             THEN d[FirstScanHit(d, message_lower)][2]
             ELSE None

\* check_explicit_trigger without the '/' and '!' prefix rule.
check_explicit_trigger_no_prefix(roles, message) ==
    IF message = <<>> THEN None
    ELSE LET words == Split(Strip(Lower(message)))
             d == trigger_to_role(roles)
         IN  IF words # <<>> /\ DictHas(d, words[1])
             THEN DictGet(d, words[1])
             ELSE None

\* check_explicit_trigger(message): the role of an explicit trigger (prefix
\* or first word), None otherwise.
check_explicit_trigger(roles, message) ==
    IF message = <<>> THEN None
    ELSE LET message_lower == Strip(Lower(message))
             words == Split(message_lower)
             d == trigger_to_role(roles)
         IN  IF /\ words # <<>>
                /\ Len(words[1]) > 1
                /\ words[1][1] \in {"/", "!"}
                /\ DictHas(d, Tail(words[1]))
             THEN DictGet(d, Tail(words[1]))
             ELSE IF words # <<>> /\ DictHas(d, words[1])
             THEN DictGet(d, words[1])
             ELSE None

\* resolve_role with step 0 trusting the button: no "role_id in roles" test.
resolve_role_unchecked(roles, message, card_data, classification) ==
    IF card_data.action = "select_role"
    THEN <<card_data.role, <<>>>>
    ELSE IF message = <<>> THEN <<None, NoneText>>
    ELSE LET message_lower == Strip(Lower(message))
             words == Split(message_lower)
             d == trigger_to_role(roles)
         IN  IF /\ words # <<>>
                /\ Len(words[1]) > 1
                /\ words[1][1] \in {"/", "!"}
                /\ DictHas(d, Tail(words[1]))
             THEN <<DictGet(d, Tail(words[1])), JoinSpace(Tail(words))>>
             ELSE IF words # <<>> /\ DictHas(d, words[1])
             THEN <<DictGet(d, words[1]), JoinSpace(Tail(words))>>
             ELSE IF \E i \in 1..Len(d) : Contains(d[i][1], message_lower)
             THEN <<d[FirstScanHit(d, message_lower)][2], message>>
             ELSE IF /\ classification # NoneText
                     /\ DictHas(d, Lower(Strip(classification)))
             THEN <<DictGet(d, Lower(Strip(classification))), message>>
             ELSE <<None, NoneText>>

\* resolve_role reading the classifier's answer as it came: no strip, no lower.
resolve_role_raw_answer(roles, message, card_data, classification) ==
    IF card_data.action = "select_role" /\ HasRole(roles, card_data.role)
    THEN <<card_data.role, <<>>>>
    ELSE IF message = <<>> THEN <<None, NoneText>>
    ELSE LET message_lower == Strip(Lower(message))
             words == Split(message_lower)
             d == trigger_to_role(roles)
         IN  IF /\ words # <<>>
                /\ Len(words[1]) > 1
                /\ words[1][1] \in {"/", "!"}
                /\ DictHas(d, Tail(words[1]))
             THEN <<DictGet(d, Tail(words[1])), JoinSpace(Tail(words))>>
             ELSE IF words # <<>> /\ DictHas(d, words[1])
             THEN <<DictGet(d, words[1]), JoinSpace(Tail(words))>>
             ELSE IF \E i \in 1..Len(d) : Contains(d[i][1], message_lower)
             THEN <<d[FirstScanHit(d, message_lower)][2], message>>
             ELSE IF /\ classification # NoneText
                     /\ DictHas(d, classification)
             THEN <<DictGet(d, classification), message>>
             ELSE <<None, NoneText>>

\* resolve_role(message, card_data): <<role_id, remaining_message>>, or
\* <<None, None>>.  classification is the raw answer of the intent
\* classifier (NoneText when the call raises); it is read in step 4 only.
resolve_role(roles, message, card_data, classification) ==
    IF card_data.action = "select_role" /\ HasRole(roles, card_data.role)
    THEN <<card_data.role, <<>>>>
    ELSE IF message = <<>> THEN <<None, NoneText>>
    ELSE LET message_lower == Strip(Lower(message))
             words == Split(message_lower)
             d == trigger_to_role(roles)
         IN  IF /\ words # <<>>
                /\ Len(words[1]) > 1
                /\ words[1][1] \in {"/", "!"}
                /\ DictHas(d, Tail(words[1]))
             THEN <<DictGet(d, Tail(words[1])), JoinSpace(Tail(words))>>
             ELSE IF words # <<>> /\ DictHas(d, words[1])
             THEN <<DictGet(d, words[1]), JoinSpace(Tail(words))>>
             ELSE IF \E i \in 1..Len(d) : Contains(d[i][1], message_lower)
             THEN <<d[FirstScanHit(d, message_lower)][2], message>>
             ELSE IF /\ classification # NoneText
                     /\ DictHas(d, Lower(Strip(classification)))
             THEN <<DictGet(d, Lower(Strip(classification))), message>>
             ELSE <<None, NoneText>>

\* Whether resolve_role reaches step 4 and calls the intent classifier.
ClassifierConsulted(roles, message, card_data) ==
    LET d == trigger_to_role(roles)
        message_lower == Strip(Lower(message))
    IN  /\ ~(card_data.action = "select_role" /\ HasRole(roles, card_data.role))
        /\ message # <<>>
        /\ check_explicit_trigger(roles, message) = None
        /\ ~\E i \in 1..Len(d) : Contains(d[i][1], message_lower)

(***************************************************************************)
(* The BotState table: one row per row key in each partition.              *)
(* table_service_client is "client" when storage is configured and          *)
(* answers, "failing" when it is configured and every call raises, None    *)
(* when it is not configured: each function returns early or catches.      *)
(***************************************************************************)
Conversations == {"19:meeting_a"}

\* A second conversation of the same bot.
OtherConversation == "19:meeting_b"

\* A third one, whose hash has the low 32 bits of the hash of the first in
\* the process that starts with secret 1: the hash has 64 bits, the row key
\* keeps 32 of them, and two ids that differ can agree on those.
CollidingConversation == "19:meeting_c"

\* The string-hash secrets a process can start with: Python draws one at
\* interpreter start (PYTHONHASHSEED is not set anywhere in the repository).
HashSeeds == {1, 2}

\* The hash of a str under a secret: a 64-bit value, written as four 16-bit
\* limbs, most significant first.
str_hash(seed, string) ==
    CASE seed = 1 /\ string = "19:meeting_a" -> <<24576, 17, 4660, 22136>>
      [] seed = 2 /\ string = "19:meeting_a" -> <<40211, 3, 51966, 47806>>
      [] seed = 1 /\ string = "19:meeting_b" -> <<911, 60000, 7, 30583>>
      [] seed = 2 /\ string = "19:meeting_b" -> <<5, 1202, 43690, 12>>
      [] seed = 1 /\ string = "19:meeting_c" -> <<9001, 52, 4660, 22136>>
      [] seed = 2 /\ string = "19:meeting_c" -> <<77, 8, 300, 65535>>
      [] OTHER -> <<16384, 5, 2, 1>>

\* hash(conversation_id) in the running process.
hash(conversation_id) == str_hash(hash_seed, conversation_id)

\* str(hash(conversation_id) & 0xFFFFFFFF): the low 32 bits.
row_key(conversation_id) ==
    <<hash(conversation_id)[3], hash(conversation_id)[4]>>

\* The row keys any process computes for the conversations.
RowKeys ==
    {<<str_hash(seed, c)[3], str_hash(seed, c)[4]>> : seed \in HashSeeds,
       c \in Conversations \cup {OtherConversation, CollidingConversation}}

NoEntity == [present |-> FALSE]

\* get_pending_role without the test of table_service_client.
get_pending_role_unguarded(table, conversation_id, time) ==
    LET entity == table[row_key(conversation_id)]
    IN  IF ~entity.present THEN <<None, table>>
        ELSE IF time - entity.Timestamp_ < PENDING_ROLE_TTL_SECONDS
        THEN <<entity.Role, table>>
        ELSE <<None, [table EXCEPT ![row_key(conversation_id)] = NoEntity]>>

\* get_pending_role with an inclusive comparison: an entity exactly at its
\* TTL is still served.
get_pending_role_inclusive(table, conversation_id, time) ==
    LET entity == table[row_key(conversation_id)]
    IN  IF table_service_client # "client" THEN <<None, table>>
        ELSE IF ~entity.present THEN <<None, table>>
        ELSE IF time - entity.Timestamp_ <= PENDING_ROLE_TTL_SECONDS
        THEN <<entity.Role, table>>
        ELSE <<None, [table EXCEPT ![row_key(conversation_id)] = NoEntity]>>

\* get_pending_role: <<the role or None, the table after the read>>.  An
\* entity at or past its TTL is deleted by the read.
get_pending_role(table, conversation_id, time) ==
    LET entity == table[row_key(conversation_id)]
    IN  IF table_service_client # "client" THEN <<None, table>>
        ELSE IF ~entity.present THEN <<None, table>>
        ELSE IF time - entity.Timestamp_ < PENDING_ROLE_TTL_SECONDS
        THEN <<entity.Role, table>>
        ELSE <<None, [table EXCEPT ![row_key(conversation_id)] = NoEntity]>>

\* set_pending_role: upsert.  Conversation ids of the model are shorter
\* than 900 characters, so conversation_id[:900] is the id.
set_pending_role(table, conversation_id, role_id, time) ==
    IF table_service_client # "client" THEN table
    ELSE
    [table EXCEPT ![row_key(conversation_id)] =
        [present |-> TRUE, ConversationId |-> conversation_id,
         Role |-> role_id, Timestamp_ |-> time]]

\* No delete at all.
clear_pending_role_not_called(table, conversation_id) == table

\* A delete that is not keyed by the conversation.
clear_pending_role_every_row(table, conversation_id) ==
    IF table_service_client # "client" THEN table
    ELSE [k \in DOMAIN table |-> NoEntity]

\* clear_pending_role: delete; deleting an absent row raises inside the
\* try block and changes nothing.
clear_pending_role(table, conversation_id) ==
    IF table_service_client # "client" THEN table
    ELSE
    [table EXCEPT ![row_key(conversation_id)] = NoEntity]

\* get_refinement_state: <<the state or NoEntity for None, the table after>>.
get_refinement_state(table, conversation_id, time) ==
    LET entity == table[row_key(conversation_id)]
    IN  IF table_service_client # "client" THEN <<NoEntity, table>>
        ELSE IF ~entity.present THEN <<NoEntity, table>>
        ELSE IF time - entity.Timestamp_ < REFINEMENT_TTL_SECONDS
        THEN <<[present |-> TRUE, output |-> entity.Output, role_id |-> entity.RoleId],
               table>>
        ELSE <<NoEntity, [table EXCEPT ![row_key(conversation_id)] = NoEntity]>>

\* set_refinement_state that keeps the time of a row it finds.
set_refinement_state_first_time(table, conversation_id, output, role_id, time) ==
    IF table_service_client # "client" THEN table
    ELSE
    [table EXCEPT ![row_key(conversation_id)] =
        [present |-> TRUE, ConversationId |-> conversation_id,
         Output |-> Slice(output, 60000), RoleId |-> role_id,
         Timestamp_ |-> IF table[row_key(conversation_id)].present
                        THEN table[row_key(conversation_id)].Timestamp_
                        ELSE time]]

\* set_refinement_state that refreshes the row but keeps a stored output.
set_refinement_state_stale(table, conversation_id, output, role_id, time) ==
    IF table_service_client # "client" THEN table
    ELSE IF table[row_key(conversation_id)].present
    THEN [table EXCEPT ![row_key(conversation_id)].Timestamp_ = time]
    ELSE [table EXCEPT ![row_key(conversation_id)] =
             [present |-> TRUE, ConversationId |-> conversation_id,
              Output |-> Slice(output, 60000), RoleId |-> role_id, Timestamp_ |-> time]]

\* set_refinement_state: upsert, the output cut to 60000 characters.
set_refinement_state(table, conversation_id, output, role_id, time) ==
    IF table_service_client # "client" THEN table
    ELSE
    [table EXCEPT ![row_key(conversation_id)] =
        [present |-> TRUE, ConversationId |-> conversation_id,
         Output |-> Slice(output, 60000), RoleId |-> role_id, Timestamp_ |-> time]]

\* clear_refinement_state
clear_refinement_state(table, conversation_id) ==
    IF table_service_client # "client" THEN table
    ELSE
    [table EXCEPT ![row_key(conversation_id)] = NoEntity]


(***************************************************************************)
(* Attachments.  An attachment carries what the download and the text      *)
(* extraction (external services) make of it: file_text, or fails.         *)
(***************************************************************************)
EndsWith(s, p) == Len(s) >= Len(p) /\ SubSeq(s, Len(s) - Len(p) + 1, Len(s)) = p

\* extract_text_from_attachment: the extracted text, or a bracketed sentinel.
extract_text_from_attachment(attachment) ==
    LET name == attachment.name
        content_type == attachment.content_type
    IN  IF attachment.fails
        THEN <<"[", "E", "r", "r", "o", "r", " ", "e", "x", "t", "r", "a", "c", "t", "i", "n", "g", " ", "t", "e", "x", "t", " ", "f", "r", "o", "m", " ">>
             \o name \o <<":", " ", "e", "]">>
        ELSE IF \/ EndsWith(Lower(name), <<".", "p", "d", "f">>)
                \/ Contains(<<"p", "d", "f">>, Lower(content_type))
                \/ EndsWith(Lower(name), <<".", "d", "o", "c", "x">>)
                \/ Contains(<<"w", "o", "r", "d", "p", "r", "o", "c", "e", "s", "s", "i", "n", "g", "m", "l">>, Lower(content_type))
                \/ EndsWith(Lower(name), <<".", "d", "o", "c">>)
        THEN attachment.file_text
        ELSE <<"[", "U", "n", "s", "u", "p", "p", "o", "r", "t", "e", "d", " ", "f", "i", "l", "e", " ", "t", "y", "p", "e", ":", " ">>
             \o name \o <<"]">>

\* The loop of on_turn over the attachments: images are skipped, a text is
\* appended under a header, a sentinel is appended as it is.
RECURSIVE attachment_texts(_)
attachment_texts(attachments) ==
    IF attachments = <<>> THEN <<>>
    ELSE LET attachment == Head(attachments)
             extracted == extract_text_from_attachment(attachment)
             rest == attachment_texts(Tail(attachments))
         IN  IF StartsWith(attachment.content_type, <<"i", "m", "a", "g", "e", "/">>)
             THEN rest
             ELSE IF extracted # <<>> /\ ~StartsWith(extracted, <<"[">>)
             THEN << <<"-", "-", "-", " ", "C", "o", "n", "t", "e", "n", "t", " ", "f", "r", "o", "m", " ">>
                     \o attachment.name \o <<" ", "-", "-", "-", "\n">> \o extracted >> \o rest
             ELSE IF StartsWith(extracted, <<"[">>)
             THEN <<extracted>> \o rest
             ELSE rest

\* combined_input: the user text, a blank line, the file content.
combined_input_of(user_text, texts) ==
    IF texts # <<>>
    THEN IF user_text # <<>>
         THEN user_text \o <<"\n", "\n">> \o JoinBlankLine(texts)
         ELSE JoinBlankLine(texts)
    ELSE user_text

(***************************************************************************)
(* LLM calls.  llm is what the completion call does in this turn: an       *)
(* answer text, or an exception.                                           *)
(***************************************************************************)
\* refine_output: the answer, or on an exception the error text as the result.
refine_output(original_output, user_instruction, role_id, llm) ==
    IF llm.ok THEN llm.text
    ELSE [id |-> "Error refining output: e", len |-> 25]

NoCall == [made |-> FALSE]

\* The answer of an intent classifier that was not consulted.
NotAsked == <<"<NotAsked>">>

HelpWords ==
    {<<"h", "e", "l", "p">>, <<"/", "h", "e", "l", "p">>, <<"m", "e", "n", "u">>,
     <<"s", "t", "a", "r", "t">>, <<"h", "i">>, <<"h", "e", "l", "l", "o">>}

(***************************************************************************)
(* The turns the environment sends, and what the external services answer. *)
(***************************************************************************)
TxtEmpty == <<>>

TxtHi == <<"H", "i">>

TxtSpec == <<"s", "p", "e", "c">>

TxtSlashSpec == <<"/", "s", "p", "e", "c", " ", "p", "l", "e", "a", "s", "e", " ", "r", "e", "v", "i", "e", "w">>

TxtSpecCaps == <<"S", "p", "e", "c", " ", "J", "o", " ", "B">>

TxtMid == <<"p", "l", "e", "a", "s", "e", " ", "s", "p", "e", "c", " ", "t", "h", "i", "s">>

TxtReformat == <<"r", "e", "f", "o", "r", "m", "a", "t", " ", "t", "h", "i", "s", " ", "i", "n", "s", "t", "e", "a", "d">>

TxtShorter == <<"m", "a", "k", "e", " ", "i", "t", " ", "s", "h", "o", "r", "t", "e", "r">>

TxtBadCv == <<"b", "a", "d", " ", "c", "v">>

TxtHey == <<"h", "e", "y">>

Texts ==
    {TxtEmpty, TxtHi, TxtSpec, TxtSlashSpec, TxtSpecCaps, TxtMid,
     TxtReformat, TxtShorter, TxtBadCv, TxtHey}

NoCard == [action |-> None, role |-> None]

Cards ==
    {NoCard,
     [action |-> "select_role", role |-> "jd"],
     [action |-> "select_role", role |-> "retired"],
     [action |-> "start_new", role |-> None],
     [action |-> "exit_refinement", role |-> None]}

CvPdf ==
    [name |-> <<"c", "v", ".", "p", "d", "f">>,
     content_type |-> <<"a", "p", "p", "l", "i", "c", "a", "t", "i", "o", "n", "/", "p", "d", "f">>,
     file_text |-> <<"J", "o", " ", "B", " ", "C", "V">>, fails |-> FALSE]

NotesTxt ==
    [name |-> <<"x", ".", "t", "x", "t">>,
     content_type |-> <<"t", "e", "x", "t", "/", "p", "l", "a", "i", "n">>,
     file_text |-> <<"n", "o", "t", "e", "s">>, fails |-> FALSE]

AttachmentLists == {<<>>, <<CvPdf>>, <<NotesTxt>>}

CvDocx ==
    [name |-> <<"b", ".", "d", "o", "c", "x">>,
     content_type |-> <<"a", "p", "p", "l", "i", "c", "a", "t", "i", "o", "n", "/", "o", "c", "t", "e", "t">>,
     file_text |-> <<"A", "l", " ", "C", "V">>, fails |-> FALSE]

\* A PDF the reader raises on.
BadPdf ==
    [name |-> <<"z", ".", "p", "d", "f">>,
     content_type |-> <<"a", "p", "p", "l", "i", "c", "a", "t", "i", "o", "n", "/", "p", "d", "f">>,
     file_text |-> <<>>, fails |-> TRUE]

\* One message with several files: two that extract, and one that extracts
\* beside one that does not, in both orders.
FileLists ==
    {<<CvPdf, CvDocx>>, <<CvPdf, BadPdf>>, <<BadPdf, CvPdf>>, <<CvPdf, BadPdf, CvDocx>>}

\* Raw answers of the intent classifier; NoneText stands for a raised call.
ClassifierAnswers ==
    {<<"J", "D", "\n">>, <<"n", "o", "n", "e">>, <<"j", "d", ".">>, NoneText}

LLMFails == [ok |-> FALSE]

LLMOutcomes ==
    {LLMFails,
     [ok |-> TRUE, text |-> [id |-> "answer_a", len |-> 1200]],
     [ok |-> TRUE, text |-> [id |-> "answer_b", len |-> 60001]]}

\* What the document branch sends after parse_cv_json, create_meraki_cv and
\* the upload.
DocOutcomes ==
    {"download_link", "error_storage_not_configured", "error_parsing_cv_data",
     "error_generating_document"}

\* The instants the clock takes: each side of the pending-role TTL after a
\* write at 0, and each side of the refinement TTL at MaxTime.
Instants == {0, 299, 300, MaxTime}

(***************************************************************************)
(* The BotRoles table as an administrator fills it.                        *)
(***************************************************************************)
EntityJd ==
    [RowKey |-> "jd", Name |-> "Job Description", Trigger |-> <<"j", "d">>,
     Aliases |-> <<"j", "o", "b", "d", "e", "s", "c", ",", " ", "b", "r", "i", "e", "f", " ", ",", ",">>,
     IsActive |-> TRUE]

EntityTemp(active) ==
    [RowKey |-> "temp", Name |-> "Temp Desk", Trigger |-> <<"T", "e", "m", "p">>,
     Aliases |-> <<>>, IsActive |-> active]

\* The contents of the BotRoles table: nothing, two active roles, and the
\* same two with "temp" marked inactive.
RoleTables ==
    {<<>>, <<EntityJd, EntityTemp(TRUE)>>, <<EntityJd, EntityTemp(FALSE)>>}

\* The reformat role as a row of the BotRoles table: the table has no
\* column for the output type.
EntityReformat ==
    [RowKey |-> "reformat", Name |-> "CV Reformat",
     Trigger |-> <<"r", "e", "f", "o", "r", "m", "a", "t">>,
     Aliases |-> <<"f", "o", "r", "m", "a", "t", ",", "t", "e", "m", "p", "l", "a", "t", "e">>,
     IsActive |-> TRUE]

ReformatTables == {<<>>, <<EntityReformat, EntityJd>>}

TxtTemp == <<"t", "e", "m", "p", " ", "t", "h", "i", "s">>

CardTemp == [action |-> "select_role", role |-> "temp"]

\* Every text and button of the model, and every mapping get_roles serves.
\* Texts a user typed that begin with a bracket: one no trigger occurs in,
\* one with the trigger "jd" after the first word.
TxtBracket == <<"[", "1", "]", " ", "n", "o", "t", "e">>

TxtBracketJd == <<"[", "1", "]", " ", "j", "d">>

AllTexts == Texts \cup {TxtTemp, TxtBracket, TxtBracketJd}

AllCards == Cards \cup {CardTemp}

Registries ==
    {get_default_roles} \cup ({ActiveRoles(t) : t \in RoleTables \cup ReformatTables} \ {<<>>})

(***************************************************************************)
(* The string work of a turn depends on the turn alone; it is evaluated    *)
(* once per input.                                                         *)
(***************************************************************************)
is_help ==
    [m \in AllTexts |-> Strip(Lower(m)) \in HelpWords]

explicit_trigger_of ==
    [r \in Registries |-> [m \in AllTexts |-> check_explicit_trigger(r, m)]]

resolved_of ==
    [r \in Registries |->
        [m \in AllTexts, c \in AllCards, a \in ClassifierAnswers |->
            resolve_role(r, m, c, a)]]

classifier_consulted ==
    [r \in Registries |->
        [m \in AllTexts, c \in AllCards |-> ClassifierConsulted(r, m, c)]]

\* The three under one mapping: looked up once per turn.
routing_of(roles) ==
    [check_explicit_trigger |-> explicit_trigger_of[roles],
     resolve_role |-> resolved_of[roles],
     ClassifierConsulted |-> classifier_consulted[roles]]

attachment_texts_of ==
    [a \in AttachmentLists \cup FileLists |-> attachment_texts(a)]

combined_input_memo ==
    [m \in AllTexts, a \in AttachmentLists \cup FileLists |->
        combined_input_of(m, attachment_texts(a))]

(***************************************************************************)
(* on_turn, as a function of the tables, the clock and the turn: the       *)
(* tables after the turn and a log of what the turn did.                   *)
(*   roles    the mapping get_roles returned to the turn                   *)
(*   load_raised                                                           *)
(*            whether the query of the BotRoles table raised               *)
(*   stored   whether the conversation had a row in each table as the turn *)
(*            began                                                        *)
(*   pre_pending, pre_refinement                                           *)
(*            what the two reads would have returned as the turn began     *)
(*   kind     which return of on_turn ended the turn                       *)
(*   role     the role the content was processed with                      *)
(*   content  final_content handed to the role's LLM call                  *)
(*   answer   what the intent classifier answered, if it was consulted     *)
(*   refine   the refine_output call, if one was made                      *)
(*   sent     the outbound messages, in order                              *)
(***************************************************************************)
Log(conversation_id, user_text, attachments, card_data, time, pend, refi) ==
    [conv |-> conversation_id, text |-> user_text, atts |-> attachments,
     card |-> card_data,
     stored |-> [pending |-> pend[row_key(conversation_id)].present,
                 refinement |-> refi[row_key(conversation_id)].present],
     pre_pending |-> get_pending_role(pend, conversation_id, time)[1],
     pre_refinement |-> get_refinement_state(refi, conversation_id, time)[1],
     kind |-> "", role |-> None, content |-> NoneText,
     resolved |-> <<"NotCalled", NoneText>>, classified |-> FALSE,
     answer |-> NotAsked, pending_read |-> "NotRead",
     refine |-> NoCall, reply |-> NoCall, sent |-> <<>>, roles |-> <<>>,
     load_raised |-> FALSE, activity |-> "message"]

\* Lines 1017-1104: the role's configuration, the content, the LLM call, and
\* the document or the refinement state.
process_role(roles, pend, refi, time, log, role_id, content_for_role, combined_input, texts, llm, doc) ==
    IF ~HasRole(roles, role_id)
    THEN [pending |-> pend, refinement |-> refi,
          log |-> [log EXCEPT !.kind = "KeyError", !.role = role_id]]
    ELSE
    LET role == RoleOf(roles, role_id)
        final_content ==
            IF texts # <<>> THEN combined_input
            ELSE IF Truthy(content_for_role) THEN content_for_role
            ELSE combined_input
    IN  IF ~Truthy(final_content) \/ StartsWith(final_content, <<"[">>)
        THEN IF Truthy(final_content)
             THEN [pending |-> pend, refinement |-> refi,
                   log |-> [log EXCEPT !.kind = "error_echo", !.role = role_id,
                                       !.sent = <<"extraction_error">>]]
             ELSE [pending |-> pend, refinement |-> refi,
                   log |-> [log EXCEPT !.kind = "ask_content", !.role = role_id,
                                       !.sent = <<"please_send_content">>]]
        ELSE IF ~llm.ok
        THEN [pending |-> pend, refinement |-> refi,
              log |-> [log EXCEPT !.kind = "ai_error", !.role = role_id,
                                  !.content = final_content,
                                  !.sent = <<"error_calling_ai">>]]
        ELSE IF role.output_type = "word"
        THEN [pending |-> pend, refinement |-> refi,
              log |-> [log EXCEPT !.kind = "document", !.role = role_id,
                                  !.content = final_content,
                                  !.reply = [made |-> TRUE, text |-> llm.text],
                                  !.sent = <<doc>>]]
        ELSE [pending |-> pend,
              refinement |-> set_refinement_state(refi, log.conv, llm.text, role_id, time),
              log |-> [log EXCEPT !.kind = "reply", !.role = role_id,
                                  !.content = final_content,
                                  !.reply = [made |-> TRUE, text |-> llm.text],
                                  !.sent = <<"reply_with_refinement_card">>]]

\* Lines 978-1015: the button with no content, the pending role, the menus.
route(roles, pend, refi, time, log, refinement_state, role_id, content_for_role, combined_input, texts, llm, doc) ==
    LET card_data == log.card
        conversation_id == log.conv
        refi1 == IF card_data.action # None /\ refinement_state.present
                 THEN clear_refinement_state(refi, conversation_id)
                 ELSE refi
    IN  IF role_id # None /\ card_data.action # None /\ Strip(combined_input) = <<>>
        THEN IF ~HasRole(roles, role_id)
             THEN [pending |-> pend, refinement |-> refi1,
                   log |-> [log EXCEPT !.kind = "KeyError", !.role = role_id]]
             ELSE
             [pending |-> set_pending_role(pend, conversation_id, role_id, time),
              refinement |-> refi1,
              log |-> [log EXCEPT !.kind = "await", !.role = role_id,
                                  !.sent = <<"send_me_the_content">>]]
        ELSE IF role_id = None
        THEN LET got == get_pending_role(pend, conversation_id, time)
                 pending == got[1]
                 log1 == [log EXCEPT !.pending_read = pending]
             IN  IF pending # None /\ combined_input # <<>>
                    /\ ~StartsWith(combined_input, <<"[">>)
                 THEN process_role(roles, clear_pending_role(got[2], conversation_id), refi1,
                                   time, log1, pending, combined_input,
                                   combined_input, texts, llm, doc)
                 ELSE IF combined_input # <<>> /\ ~StartsWith(combined_input, <<"[">>)
                 THEN [pending |-> got[2], refinement |-> refi1,
                       log |-> [log1 EXCEPT !.kind = "unsure",
                                            !.sent = <<"not_sure_help_card">>]]
                 ELSE [pending |-> got[2], refinement |-> refi1,
                       log |-> [log1 EXCEPT !.kind = "menu", !.sent = <<"help_card">>]]
        ELSE process_role(roles, pend, refi1, time, log, role_id, content_for_role,
                          combined_input, texts, llm, doc)

\* on_turn for an activity of type "message".
on_turn(roles, routing, pend, refi, time, conversation_id, user_text, attachments, card_data, classification, llm, doc) ==
    LET log == Log(conversation_id, user_text, attachments, card_data, time, pend, refi)
        cleared == clear_refinement_state(refi, conversation_id)
    IN  IF is_help[user_text]
        THEN [pending |-> pend, refinement |-> cleared,
              log |-> [log EXCEPT !.kind = "help", !.sent = <<"help_card">>]]
        ELSE IF card_data.action = "exit_refinement"
        THEN [pending |-> pend, refinement |-> cleared,
              log |-> [log EXCEPT !.kind = "exit_refinement",
                                  !.sent = <<"great_let_me_know", "help_card">>]]
        ELSE IF card_data.action = "start_new"
        THEN [pending |-> pend, refinement |-> cleared,
              log |-> [log EXCEPT !.kind = "start_new", !.sent = <<"help_card">>]]
        ELSE
        LET texts == attachment_texts_of[attachments]
            combined == combined_input_memo[user_text, attachments]
            got == get_refinement_state(refi, conversation_id, time)
            refinement_state == got[1]
            refi1 == got[2]
        IN  IF refinement_state.present /\ user_text # <<>> /\ card_data.action = None
            THEN LET explicit_role == routing.check_explicit_trigger[user_text]
                 IN  IF explicit_role # None
                     THEN route(roles, pend, clear_refinement_state(refi1, conversation_id),
                                time, log, refinement_state, explicit_role, user_text,
                                combined, texts, llm, doc)
                     ELSE LET refined_output ==
                                  refine_output(refinement_state.output, user_text,
                                                refinement_state.role_id, llm)
                          IN  [pending |-> pend,
                               refinement |->
                                   set_refinement_state(refi1, conversation_id,
                                       refined_output, refinement_state.role_id, time),
                               log |-> [log EXCEPT
                                   !.kind = "refine",
                                   !.refine = [made |-> TRUE,
                                               original_output |-> refinement_state.output,
                                               user_instruction |-> user_text,
                                               role_id |-> refinement_state.role_id,
                                               result |-> refined_output],
                                   !.sent = <<"refined_with_refinement_card">>]]
            ELSE LET resolution == routing.resolve_role[user_text, card_data, classification]
                     log1 == [log EXCEPT
                                 !.resolved = resolution,
                                 !.classified = routing.ClassifierConsulted[user_text, card_data],
                                 !.answer = IF routing.ClassifierConsulted[user_text, card_data]
                                            THEN classification ELSE NotAsked]
                 IN  route(roles, pend, refi1, time, log1, refinement_state, resolution[1],
                           resolution[2], combined, texts, llm, doc)


(***************************************************************************)
(* The state machine.                                                      *)
(***************************************************************************)
NoTurn ==
    [conv |-> "", text |-> <<>>, atts |-> <<>>, card |-> NoCard,
     stored |-> [pending |-> FALSE, refinement |-> FALSE],
     pre_pending |-> None, pre_refinement |-> NoEntity,
     kind |-> "init", role |-> None, content |-> NoneText,
     resolved |-> <<"NotCalled", NoneText>>, classified |-> FALSE,
     answer |-> NotAsked, pending_read |-> "NotRead",
     refine |-> NoCall, reply |-> NoCall, sent |-> <<>>, roles |-> <<>>,
     load_raised |-> FALSE, activity |-> "message"]

\* A process that has just started, on empty tables.
\* The container is empty; no run uploaded anything.
NoOutputs == [blobs |-> {}, uploads |-> 0]

\* No response is being turned into a document.
NoCv == [stage |-> "none"]

\* The message turns that can be under way at once; none has begun.
TurnIds == {1, 2}

NotBegun == [pc |-> "idle"]

NoTurns == [t \in TurnIds |-> NotBegun]

\* No load is in progress; nobody holds the mapping.
LoaderIdle == [pc |-> "idle", entities |-> <<>>, next |-> 1, roles |-> <<>>]

ReaderIdle == [pc |-> "idle", aliased |-> FALSE, held |-> <<>>, got |-> <<>>, seen |-> <<>>]

Started ==
    /\ now = 0
    /\ pending_table = [k \in RowKeys |-> NoEntity]
    /\ refinement_table = [k \in RowKeys |-> NoEntity]
    /\ hash_seed = 1
    /\ roles_cache = <<>>
    /\ roles_cache_timestamp = 0
    /\ last = NoTurn
    /\ loader = LoaderIdle
    /\ reader = ReaderIdle
    /\ cv_outputs = NoOutputs
    /\ inflight = NoTurns

\* Storage is configured and answers; the BotRoles table is not populated,
\* so that every load falls back to the built-in roles.
Init ==
    /\ Started
    /\ table_service_client = "client"
    /\ bot_roles = <<>>
    /\ cv = NoCv

\* Rows a process finds in the tables when it starts: none, or the rows an
\* earlier process with a working store left for the conversation.
LeftPending ==
    {[k \in RowKeys |-> NoEntity],
     [k \in RowKeys |->
         IF k = <<str_hash(1, "19:meeting_a")[3], str_hash(1, "19:meeting_a")[4]>>
         THEN [present |-> TRUE, ConversationId |-> "19:meeting_a",
               Role |-> "jd", Timestamp_ |-> 0]
         ELSE NoEntity]}

LeftRefinement ==
    {[k \in RowKeys |-> NoEntity],
     [k \in RowKeys |->
         IF k = <<str_hash(1, "19:meeting_a")[3], str_hash(1, "19:meeting_a")[4]>>
         THEN [present |-> TRUE, ConversationId |-> "19:meeting_a",
               Output |-> [id |-> "answer_a", len |-> 1200], RoleId |-> "jd",
               Timestamp_ |-> 0]
         ELSE NoEntity]}

\* The connection string is not set (no client), or it is set and every
\* call on the tables raises.
InitNoStore ==
    /\ now = 0
    /\ pending_table \in LeftPending
    /\ refinement_table \in LeftRefinement
    /\ hash_seed = 1
    /\ roles_cache = <<>>
    /\ roles_cache_timestamp = 0
    /\ last = NoTurn
    /\ loader = LoaderIdle
    /\ reader = ReaderIdle
    /\ cv_outputs = NoOutputs
    /\ inflight = NoTurns
    /\ cv = NoCv
    /\ table_service_client \in {None, "failing"}
    /\ bot_roles = <<>>

\* The answers worth telling apart: of a call the turn does not make, one.
LoadChoices ==
    IF /\ roles_cache = <<>> \/ now - roles_cache_timestamp >= CACHE_TTL_SECONDS
       /\ table_service_client = "client"
       /\ bot_roles # <<>>
    THEN BOOLEAN ELSE {FALSE}

ClassifierChoices(routing, user_text, card_data) ==
    IF routing.ClassifierConsulted[user_text, card_data]
    THEN ClassifierAnswers ELSE {NoneText}

LLMChoices(probe) ==
    IF probe.log.kind = "ai_error" \/ probe.log.refine.made
    THEN LLMOutcomes ELSE {LLMFails}

\* Both storage clients are made from the one connection string.
blob_service_client ==
    IF table_service_client = None THEN None ELSE "client"

\* parse_cv_json and create_meraki_cv run before the test of
\* blob_service_client; without a client the branch ends in the
\* storage message, with one in the link or in a failed upload.
DocChoices(roles, probe) ==
    IF probe.log.kind = "ai_error"
       /\ RoleOf(roles, probe.log.role).output_type = "word"
    THEN IF blob_service_client = None
         THEN DocOutcomes \ {"download_link"}
         ELSE DocOutcomes \ {"error_storage_not_configured"}
    ELSE {"download_link"}

\* No test of the activity's type.
is_any_activity(activity_type) == activity_type = activity_type

\* Line 887: the test every activity meets first.
is_message(activity_type) == activity_type = "message"

\* One activity, handled from its arrival to the return of on_turn: the
\* body of on_turn is under the test of line 887 and nothing follows it.
\* Every path of the body calls get_roles before it uses the registry; the
\* calls of one turn are served the mapping of the first.
Activity(activity_type, conversation_id, user_text, attachments, card_data) ==
    IF ~is_message(activity_type)
    THEN /\ last' = [Log(conversation_id, user_text, attachments, card_data, now,
                         pending_table, refinement_table)
                        EXCEPT !.kind = "ignored", !.activity = activity_type]
         /\ UNCHANGED <<now, store_vars, process_vars, reload_vars, aux_vars>>
    ELSE
    \E fails \in LoadChoices :
    \E registry \in {get_roles(roles_cache, roles_cache_timestamp, bot_roles, fails, now)} :
    \E routing \in {routing_of(registry.roles)} :
    \E classification \in ClassifierChoices(routing, user_text, card_data) :
    \E probe \in {on_turn(registry.roles, routing, pending_table, refinement_table, now,
                          conversation_id, user_text, attachments, card_data,
                          classification, LLMFails, "download_link")} :
    \E llm \in LLMChoices(probe), doc \in DocChoices(registry.roles, probe) :
        LET r == on_turn(registry.roles, routing, pending_table, refinement_table, now,
                         conversation_id, user_text, attachments, card_data,
                         classification, llm, doc)
        IN  /\ pending_table' = r.pending
            /\ refinement_table' = r.refinement
            /\ roles_cache' = registry.roles_cache
            /\ roles_cache_timestamp' = registry.roles_cache_timestamp
            /\ last' = [r.log EXCEPT !.roles = registry.roles, !.load_raised = fails,
                                      !.activity = activity_type]
            /\ UNCHANGED <<now, bot_roles, table_service_client, hash_seed, reload_vars, aux_vars>>

\* One message activity.
Turn(conversation_id, user_text, attachments, card_data) ==
    Activity("message", conversation_id, user_text, attachments, card_data)

\* Time passes between two turns.
Tick ==
    /\ \E t \in Instants : t > now /\ t <= MaxTime /\ now' = t
    /\ UNCHANGED <<store_vars, process_vars, last, reload_vars, aux_vars>>

\* The turns sent: a text alone, a file with or without a text, and a button
\* alone, with a file or with a text.
SelectRoleCards == {c \in Cards : c.action = "select_role"}

Turns ==
    (Texts \X {<<>>} \X {NoCard})
        \cup ({TxtEmpty, TxtSlashSpec, TxtShorter} \X {<<CvPdf>>, <<NotesTxt>>} \X {NoCard})
        \cup ({TxtEmpty} \X AttachmentLists \X SelectRoleCards)
        \cup ({TxtEmpty} \X {<<>>} \X (Cards \ (SelectRoleCards \cup {NoCard})))
        \cup ({TxtShorter, TxtHi} \X {<<>>} \X {[action |-> "select_role", role |-> "jd"]})

Next ==
    \/ \E conversation_id \in Conversations, turn \in Turns :
           Turn(conversation_id, turn[1], turn[2], turn[3])
    \/ Tick

Spec == Init /\ [][Next]_vars

\* The process ends and a new one starts: the interpreter draws a new hash
\* seed, the module globals are initialised again, the tables keep their
\* rows.  The seeds are numbered in the order the processes draw them.
Restart ==
    /\ hash_seed' \in {seed \in HashSeeds : seed > hash_seed}
    /\ roles_cache' = <<>>
    /\ roles_cache_timestamp' = 0
    /\ UNCHANGED <<now, store_vars, table_service_client, last, reload_vars, aux_vars>>

\* Turns that write, read and clear the two kinds of state.
TurnsRestart ==
    {<<TxtEmpty, <<>>, [action |-> "select_role", role |-> "jd"]>>,
     <<TxtHi, <<>>, NoCard>>,
     <<TxtShorter, <<>>, NoCard>>}

NextRestart ==
    \/ \E c \in Conversations, t \in TurnsRestart : Turn(c, t[1], t[2], t[3])
    \/ Tick
    \/ Restart

SpecRestart == Init /\ [][NextRestart]_vars

(***************************************************************************)
(* Messages that carry several files.                                      *)
(***************************************************************************)
TurnsFiles ==
    ({TxtEmpty, TxtReformat, TxtSlashSpec} \X FileLists \X {NoCard})
        \cup ({TxtEmpty} \X (FileLists \cup {<<>>, <<CvPdf>>})
                  \X {[action |-> "select_role", role |-> "jd"]})
        \cup ({TxtEmpty, TxtReformat} \X {<<CvPdf>>} \X {NoCard})

NextFiles ==
    \/ \E c \in Conversations, t \in TurnsFiles : Turn(c, t[1], t[2], t[3])
    \/ Tick

SpecFiles == Init /\ [][NextFiles]_vars

(***************************************************************************)
(* Overlapping turns.  messages() runs every request on an event loop of   *)
(* its own and nothing orders two requests of one conversation: the store  *)
(* calls of two turns interleave.  A text that reaches line 993 is handled *)
(* in three steps: up to the read of the pending role, the clearing of it  *)
(* or the menu, and the processing.                                        *)
(***************************************************************************)
RaceConversations == Conversations \cup {OtherConversation}

\* A text no trigger or alias matches, and no text at all.
RaceTexts == {TxtHey, TxtEmpty}

\* Lines 886-993 for a text with no file and no button that is not a
\* refinement and resolves to no role: the turn ends its first step with the
\* pending role it read.
RaceRead(t, conversation_id, user_text) ==
    /\ inflight[t].pc = "idle"
    /\ ~is_help[user_text]
    /\ \E fails \in LoadChoices :
       \E registry \in {get_roles(roles_cache, roles_cache_timestamp, bot_roles, fails, now)} :
       \E routing \in {routing_of(registry.roles)} :
       \E classification \in ClassifierChoices(routing, user_text, NoCard) :
           LET log == Log(conversation_id, user_text, <<>>, NoCard, now,
                          pending_table, refinement_table)
               state == get_refinement_state(refinement_table, conversation_id, now)
               resolution == routing.resolve_role[user_text, NoCard, classification]
               got == get_pending_role(pending_table, conversation_id, now)
               consulted == routing.ClassifierConsulted[user_text, NoCard]
           IN  /\ ~(state[1].present /\ user_text # <<>>)
               /\ resolution[1] = None
               /\ pending_table' = got[2]
               /\ refinement_table' = state[2]
               /\ roles_cache' = registry.roles_cache
               /\ roles_cache_timestamp' = registry.roles_cache_timestamp
               /\ inflight' = [inflight EXCEPT ![t] =
                      [pc |-> "read",
                       log |-> [log EXCEPT !.resolved = resolution,
                                           !.classified = consulted,
                                           !.answer = IF consulted THEN classification
                                                      ELSE NotAsked,
                                           !.pending_read = got[1],
                                           !.roles = registry.roles,
                                           !.load_raised = fails],
                       pending |-> got[1],
                       combined_input |-> combined_input_memo[user_text, <<>>],
                       overlapped |->
                           /\ got[1] # None
                           /\ \E u \in TurnIds \ {t} :
                                 /\ inflight[u].pc = "read"
                                 /\ inflight[u].log.conv = conversation_id
                                 /\ inflight[u].pending = got[1]]]
               /\ UNCHANGED <<now, bot_roles, table_service_client, hash_seed, last,
                              reload_vars, cv, cv_outputs>>

\* Lines 994-1015: the pending role is taken and cleared, or a menu is sent.
RaceRoute(t) ==
    /\ inflight[t].pc = "read"
    /\ LET turn == inflight[t]
           combined_input == turn.combined_input
           usable == combined_input # <<>> /\ ~StartsWith(combined_input, <<"[">>)
           menu == IF usable
                   THEN [turn.log EXCEPT !.kind = "unsure",
                                         !.sent = <<"not_sure_help_card">>]
                   ELSE [turn.log EXCEPT !.kind = "menu", !.sent = <<"help_card">>]
       IN  IF turn.pending # None /\ usable
           THEN /\ pending_table' = clear_pending_role(pending_table, turn.log.conv)
                /\ inflight' = [inflight EXCEPT ![t].pc = "cleared"]
                /\ UNCHANGED last
           ELSE /\ last' = menu
                /\ inflight' = [inflight EXCEPT ![t].pc = "done", ![t].log = menu]
                /\ UNCHANGED pending_table
    /\ UNCHANGED <<now, refinement_table, bot_roles, process_vars, reload_vars, cv, cv_outputs>>

\* Lines 1017-1104 under the pending role the turn read.
RaceProcess(t) ==
    /\ inflight[t].pc = "cleared"
    /\ \E llm \in LLMOutcomes, doc \in DocOutcomes :
          LET turn == inflight[t]
              r == process_role(turn.log.roles, pending_table, refinement_table, now,
                                turn.log, turn.pending, turn.combined_input,
                                turn.combined_input, <<>>, llm, doc)
          IN  /\ doc \in DocChoices(turn.log.roles,
                                    [log |-> [kind |-> "ai_error", role |-> turn.pending]])
              /\ pending_table' = r.pending
              /\ refinement_table' = r.refinement
              /\ last' = r.log
              /\ inflight' = [inflight EXCEPT ![t].pc = "done", ![t].log = r.log]
    /\ UNCHANGED <<now, bot_roles, process_vars, reload_vars, cv, cv_outputs>>

\* The user presses the button of a role, then sends the content.
RacePress(conversation_id) ==
    /\ \A t \in TurnIds : inflight[t].pc # "idle" => inflight[t].log.conv # conversation_id
    /\ Turn(conversation_id, TxtEmpty, <<>>, [action |-> "select_role", role |-> "jd"])

NextRace ==
    \/ \E t \in TurnIds, c \in RaceConversations, m \in RaceTexts : RaceRead(t, c, m)
    \/ \E t \in TurnIds : RaceRoute(t)
    \/ \E t \in TurnIds : RaceProcess(t)
    \/ \E c \in RaceConversations : RacePress(c)
    \/ Tick

SpecRace == Init /\ [][NextRace]_vars

(***************************************************************************)
(* Two conversations whose row keys are equal.                             *)
(***************************************************************************)
CollideConversations == Conversations \cup {CollidingConversation}

TurnsCollide ==
    {<<TxtEmpty, <<>>, [action |-> "select_role", role |-> "jd"]>>,
     <<TxtHey, <<>>, NoCard>>,
     <<TxtShorter, <<>>, NoCard>>,
     <<TxtHi, <<>>, NoCard>>}

NextCollide ==
    \/ \E c \in CollideConversations, t \in TurnsCollide : Turn(c, t[1], t[2], t[3])
    \/ Tick

SpecCollide == Init /\ [][NextCollide]_vars

(***************************************************************************)
(* A conversation that begins at time 0 and goes on with follow-ups, each  *)
(* sent while get_refinement_state still returns a state.                  *)
(***************************************************************************)
\* The instants of the follow-ups: 1000 s apart, and each side of the TTL.
ChainInstants == {1000, 1799, 1800, 2000}

TickChain ==
    /\ \E t \in ChainInstants : t > now /\ t <= MaxTime /\ now' = t
    /\ UNCHANGED <<store_vars, process_vars, last, reload_vars, aux_vars>>

FirstMessage(conversation_id) ==
    /\ now = 0
    /\ \E text \in {TxtSlashSpec, TxtHey} : Turn(conversation_id, text, <<>>, NoCard)

FollowUp(conversation_id) ==
    /\ get_refinement_state(refinement_table, conversation_id, now)[1].present
    /\ \E text \in {TxtShorter, TxtMid} : Turn(conversation_id, text, <<>>, NoCard)

NextChain ==
    \/ \E c \in Conversations : FirstMessage(c)
    \/ \E c \in Conversations : FollowUp(c)
    \/ TickChain

SpecChain == Init /\ [][NextChain]_vars

(***************************************************************************)
(* Typed text that begins with a bracket.                                  *)
(***************************************************************************)
TurnsBracket ==
    {<<TxtEmpty, <<>>, [action |-> "select_role", role |-> "jd"]>>,
     <<TxtBracket, <<>>, NoCard>>,
     <<TxtBracketJd, <<>>, NoCard>>,
     <<TxtHey, <<>>, NoCard>>}

NextBracket ==
    \/ \E c \in Conversations, t \in TurnsBracket : Turn(c, t[1], t[2], t[3])
    \/ Tick

SpecBracket == Init /\ [][NextBracket]_vars

(***************************************************************************)
(* The reformat role, built in or loaded from the BotRoles table.          *)
(***************************************************************************)
InitReformat ==
    /\ Started
    /\ table_service_client = "client"
    /\ bot_roles \in ReformatTables
    /\ cv = NoCv

TurnsReformat ==
    {<<TxtReformat, <<>>, NoCard>>,
     <<TxtReformat, <<CvPdf>>, NoCard>>,
     <<TxtShorter, <<>>, NoCard>>,
     <<TxtHi, <<>>, NoCard>>}

NextReformat ==
    \/ \E c \in Conversations, t \in TurnsReformat : Turn(c, t[1], t[2], t[3])
    \/ Tick

SpecReformat == InitReformat /\ [][NextReformat]_vars

\* The same turns with the table store unconfigured or failing.
SpecNoStore == InitNoStore /\ [][Next]_vars

(***************************************************************************)
(* The registry under administration: the BotRoles table is populated and  *)
(* is edited while the bot runs.                                           *)
(***************************************************************************)
\* The turns sent: the button of the table's own role, a file alone, a text
\* that starts with that role's trigger, and a help keyword.
TurnsRegistry ==
    {<<TxtEmpty, <<>>, CardTemp>>,
     <<TxtEmpty, <<CvPdf>>, NoCard>>,
     <<TxtTemp, <<>>, NoCard>>,
     <<TxtHi, <<>>, NoCard>>}

InitRegistry ==
    /\ Started
    /\ table_service_client = "client"
    /\ bot_roles \in RoleTables
    /\ cv = NoCv

\* An administrator rewrites the BotRoles table.
EditRoles ==
    /\ \E table \in RoleTables : table # bot_roles /\ bot_roles' = table
    /\ UNCHANGED <<now, pending_table, refinement_table, process_vars, last, reload_vars, aux_vars>>

NextRegistry ==
    \/ \E conversation_id \in Conversations, turn \in TurnsRegistry :
           Turn(conversation_id, turn[1], turn[2], turn[3])
    \/ Tick
    \/ EditRoles

SpecRegistry == InitRegistry /\ [][NextRegistry]_vars

(***************************************************************************)
(* Activities of every type the channel sends.                             *)
(***************************************************************************)
ActivityTypes == {"message", "conversationUpdate", "typing"}

\* What the activities carry: nothing, a text, a file, a button value.
TurnsActivity ==
    {<<TxtEmpty, <<>>, NoCard>>,
     <<TxtHey, <<>>, NoCard>>,
     <<TxtEmpty, <<>>, [action |-> "select_role", role |-> "jd"]>>}

NextActivity ==
    \/ \E type \in ActivityTypes, c \in Conversations, t \in TurnsActivity :
          Activity(type, c, t[1], t[2], t[3])
    \/ Tick

SpecActivity == InitRegistry /\ [][NextActivity]_vars

(***************************************************************************)
(* load_roles_from_table statement by statement, beside a caller of        *)
(* get_roles that was handed the cached dict and goes through its entries. *)
(* A dict is modelled by its value together with who names it: the reader  *)
(* is aliased while the dict it holds is the one roles_cache names.        *)
(***************************************************************************)
\* The test of get_roles, line 515.
CacheFresh ==
    roles_cache # <<>> /\ now - roles_cache_timestamp < CACHE_TTL_SECONDS

\* Lines 514-222: get_roles found the cache empty or old; the query.
LoadStart ==
    /\ loader.pc = "idle"
    /\ ~CacheFresh
    /\ loader' = [pc |-> "loading", entities |-> bot_roles, next |-> 1, roles |-> <<>>]
    /\ UNCHANGED <<now, store_vars, process_vars, last, reader, aux_vars>>

\* Lines 224-236: one iteration of the loop.
LoadEntry ==
    /\ loader.pc = "loading"
    /\ loader.next <= Len(loader.entities)
    /\ LET entity == loader.entities[loader.next]
           stored == IF entity.IsActive
                     THEN store_role(loader.roles, roles_cache, RoleOfEntity(entity))
                     ELSE <<loader.roles, roles_cache>>
       IN  /\ loader' = [loader EXCEPT !.next = @ + 1, !.roles = stored[1]]
           /\ roles_cache' = stored[2]
    /\ UNCHANGED <<now, store_vars, table_service_client, hash_seed, roles_cache_timestamp, last, reader, aux_vars>>

\* Lines 241-248: the query or the loop raised; the caller is handed the
\* cache or the built-in roles.
LoadRaise ==
    /\ loader.pc = "loading"
    /\ loader' = LoaderIdle
    /\ UNCHANGED <<now, store_vars, process_vars, last, reader, aux_vars>>

\* Lines 238-241 after the loop: the global is bound to the local dict if
\* it is not empty.  A reader holding the former dict keeps it.
LoadCommit ==
    /\ loader.pc = "loading"
    /\ loader.next > Len(loader.entities)
    /\ loader' = LoaderIdle
    /\ IF loader.roles # <<>>
       THEN /\ roles_cache' = loader.roles
            /\ roles_cache_timestamp' = now
            /\ reader' = IF reader.aliased
                         THEN [reader EXCEPT !.aliased = FALSE, !.held = roles_cache]
                         ELSE reader
       ELSE UNCHANGED <<roles_cache, roles_cache_timestamp, reader>>
    /\ UNCHANGED <<now, store_vars, table_service_client, hash_seed, last, aux_vars>>

\* Lines 515-516: a caller is handed the cached dict.
ReaderGet ==
    /\ reader.pc = "idle"
    /\ CacheFresh
    /\ reader' = [pc |-> "reading", aliased |-> TRUE, held |-> <<>>,
                  got |-> roles_cache, seen |-> <<>>]
    /\ UNCHANGED <<now, store_vars, process_vars, last, loader, aux_vars>>

\* The dict the reader holds, as it is now.
ReaderView == IF reader.aliased THEN roles_cache ELSE reader.held

\* Lines 795, 836: for role_id, role in roles.items(), one entry.
ReaderStep ==
    /\ reader.pc = "reading"
    /\ Len(reader.seen) < Len(ReaderView)
    /\ reader' = [reader EXCEPT !.seen = Append(@, ReaderView[Len(reader.seen) + 1])]
    /\ UNCHANGED <<now, store_vars, process_vars, last, loader, aux_vars>>

ReaderDone ==
    /\ reader.pc = "reading"
    /\ Len(reader.seen) >= Len(ReaderView)
    /\ reader' = ReaderIdle
    /\ UNCHANGED <<now, store_vars, process_vars, last, loader, aux_vars>>

NextReload ==
    \/ LoadStart
    \/ LoadEntry
    \/ LoadRaise
    \/ LoadCommit
    \/ ReaderGet
    \/ ReaderStep
    \/ ReaderDone
    \/ EditRoles
    \/ Tick

SpecReload == InitRegistry /\ [][NextReload]_vars

(***************************************************************************)
(* cv_generator.parse_cv_json.  A JSON value is modelled by its compact    *)
(* text (no whitespace outside strings): json.loads checks the grammar and *)
(* returns that text.  Strings have no escapes; the keys of an object of   *)
(* the model are distinct.                                                 *)
(***************************************************************************)
RECURSIVE SkipWs(_, _)
SkipWs(t, i) == IF i <= Len(t) /\ IsSpace(t[i]) THEN SkipWs(t, i + 1) ELSE i

Digits == {"0", "1", "2", "3", "4", "5", "6", "7", "8", "9"}

RECURSIVE DigitsEnd(_, _)
DigitsEnd(t, i) == IF i <= Len(t) /\ t[i] \in Digits THEN DigitsEnd(t, i + 1) ELSE i

\* The index of the quote that closes a string whose body starts at i; 0 if
\* the string is not closed on its line.
RECURSIVE StringEnd(_, _)
StringEnd(t, i) ==
    IF i > Len(t) \/ t[i] = "\n" THEN 0
    ELSE IF t[i] = "\"" THEN i
    ELSE StringEnd(t, i + 1)

NoValue == [ok |-> FALSE, next |-> 0, canon |-> <<>>]

Scanned(t, i, j) == [ok |-> TRUE, next |-> j + 1, canon |-> SubSeq(t, i, j)]

\* One JSON value starting at or after i: whether there is one, the index
\* after it, its compact text.
RECURSIVE ScanValue(_, _)
RECURSIVE ScanMembers(_, _)
RECURSIVE ScanElements(_, _)
ScanValue(t, i0) ==
    LET i == SkipWs(t, i0)
    IN  IF i > Len(t) THEN NoValue
        ELSE IF t[i] = "\""
        THEN IF StringEnd(t, i + 1) = 0 THEN NoValue
             ELSE Scanned(t, i, StringEnd(t, i + 1))
        ELSE IF t[i] \in Digits THEN Scanned(t, i, DigitsEnd(t, i) - 1)
        ELSE IF i + 3 <= Len(t) /\ SubSeq(t, i, i + 3) = <<"n", "u", "l", "l">>
        THEN Scanned(t, i, i + 3)
        ELSE IF t[i] = "{"
        THEN LET j == SkipWs(t, i + 1)
                 m == ScanMembers(t, j)
             IN  IF j <= Len(t) /\ t[j] = "}"
                 THEN [ok |-> TRUE, next |-> j + 1, canon |-> <<"{", "}">>]
                 ELSE IF m.ok THEN [m EXCEPT !.canon = <<"{">> \o @]
                 ELSE NoValue
        ELSE IF t[i] = "["
        THEN LET j == SkipWs(t, i + 1)
                 e == ScanElements(t, j)
             IN  IF j <= Len(t) /\ t[j] = "]"
                 THEN [ok |-> TRUE, next |-> j + 1, canon |-> <<"[", "]">>]
                 ELSE IF e.ok THEN [e EXCEPT !.canon = <<"[">> \o @]
                 ELSE NoValue
        ELSE NoValue

\* "key": value, then a comma and more members, or the closing brace.
ScanMembers(t, i0) ==
    LET i == SkipWs(t, i0)
        k == IF i <= Len(t) /\ t[i] = "\"" THEN ScanValue(t, i) ELSE NoValue
        c == SkipWs(t, k.next)
        v == ScanValue(t, c + 1)
        d == SkipWs(t, v.next)
    IN  IF ~k.ok \/ c > Len(t) \/ t[c] # ":" THEN NoValue
        ELSE IF ~v.ok \/ d > Len(t) THEN NoValue
        ELSE IF t[d] = "}"
        THEN [ok |-> TRUE, next |-> d + 1, canon |-> k.canon \o <<":">> \o v.canon \o <<"}">>]
        ELSE IF t[d] = ","
        THEN LET m == ScanMembers(t, d + 1)
             IN  IF m.ok
                 THEN [m EXCEPT !.canon = k.canon \o <<":">> \o v.canon \o <<",">> \o @]
                 ELSE NoValue
        ELSE NoValue

\* value, then a comma and more elements, or the closing bracket.
ScanElements(t, i0) ==
    LET v == ScanValue(t, i0)
        d == SkipWs(t, v.next)
    IN  IF ~v.ok \/ d > Len(t) THEN NoValue
        ELSE IF t[d] = "]"
        THEN [ok |-> TRUE, next |-> d + 1, canon |-> v.canon \o <<"]">>]
        ELSE IF t[d] = ","
        THEN LET e == ScanElements(t, d + 1)
             IN  IF e.ok THEN [e EXCEPT !.canon = v.canon \o <<",">> \o @]
                 ELSE NoValue
        ELSE NoValue

\* json.loads: the value, or JSONDecodeError when the text is not one JSON
\* value followed by nothing but whitespace.
json_loads(t) ==
    LET v == ScanValue(t, 1)
    IN  IF v.ok /\ SkipWs(t, v.next) > Len(t)
        THEN [ok |-> TRUE, value |-> v.canon]
        ELSE [ok |-> FALSE, value |-> <<>>]

\* s.find(c) and s.rfind(c) for a character, 0 standing for -1.
Find(s, c) ==
    IF \E i \in 1..Len(s) : s[i] = c
    THEN CHOOSE i \in 1..Len(s) : s[i] = c /\ \A j \in 1..(i - 1) : s[j] # c
    ELSE 0

RFind(s, c) ==
    IF \E i \in 1..Len(s) : s[i] = c
    THEN CHOOSE i \in 1..Len(s) : s[i] = c /\ \A j \in (i + 1)..Len(s) : s[j] # c
    ELSE 0

\* The character U+0060, which a TLA+ string cannot hold.
Backtick == "<backtick>"

Fence == <<Backtick, Backtick, Backtick>>

FenceJson == Fence \o <<"j", "s", "o", "n">>

Returned(value) == [raises |-> None, value |-> value]

Raised(exception) == [raises |-> exception, value |-> <<>>]

\* parse_cv_json: what it returns or raises.
parse_cv_json(ai_response) ==
    LET stripped == Strip(ai_response)
        opened == IF StartsWith(stripped, FenceJson) THEN SubSeq(stripped, 8, Len(stripped))
                  ELSE IF StartsWith(stripped, Fence) THEN SubSeq(stripped, 4, Len(stripped))
                  ELSE stripped
        closed == IF EndsWith(opened, Fence) THEN SubSeq(opened, 1, Len(opened) - 3)
                  ELSE opened
        text == Strip(closed)
        start == Find(text, "{")
        end == RFind(text, "}")
    IN  IF json_loads(text).ok THEN Returned(json_loads(text).value)
        ELSE IF start # 0 /\ end # 0 /\ json_loads(SubSeq(text, start, end)).ok
        THEN Returned(json_loads(SubSeq(text, start, end)).value)
        ELSE Raised("ValueError")

(***************************************************************************)
(* Responses handed to parse_cv_json: StructuredCV-shaped objects in two   *)
(* whitespace styles, bare and fenced, and responses that hold no object.  *)
(***************************************************************************)
CvJo ==
    <<"{", "\"", "n", "a", "m", "e", "\"", ":", "\"", "J", "o", "\"", "}">>

CvJoNoEducation ==
    <<"{", "\"", "n", "a", "m", "e", "\"", ":", "\"", "J", "o", "\"", ",",
      "\"", "e", "d", "u", "c", "a", "t", "i", "o", "n", "\"", ":", "[",
      "]", "}">>

CvBraces ==
    <<"{", "\"", "k", "\"", ":", "\"", "}", Backtick, Backtick, Backtick,
      "{", "\"", "}">>

CvNested ==
    <<"{", "\"", "w", "\"", ":", "[", "{", "\"", "t", "\"", ":", "\"", "x",
      "\"", ",", "\"", "s", "\"", ":", "[", "{", "\"", "t", "\"", ":",
      "\"", "y", "\"", "}", "]", "}", "]", ",", "\"", "n", "\"", ":", "1",
      "}">>

CvEmpty ==
    <<"{", "}">>

StructuredCVs == {CvJo, CvJoNoEducation, CvBraces, CvNested, CvEmpty}

\* json.dumps(p, indent=...) in small: a newline after an opening brace, a
\* space after a colon and after a comma, outside strings.
RECURSIVE Spaced(_, _)
Spaced(t, in_string) ==
    IF t = <<>> THEN <<>>
    ELSE IF Head(t) = "\"" THEN <<Head(t)>> \o Spaced(Tail(t), ~in_string)
    ELSE IF in_string THEN <<Head(t)>> \o Spaced(Tail(t), in_string)
    ELSE IF Head(t) = "{" THEN <<"{", "\n">> \o Spaced(Tail(t), in_string)
    ELSE IF Head(t) \in {":", ","} THEN <<Head(t), " ">> \o Spaced(Tail(t), in_string)
    ELSE <<Head(t)>> \o Spaced(Tail(t), in_string)

\* The serialisations of a StructuredCV.
Serialisations(p) == {p, Spaced(p, FALSE)}

\* A serialisation as the model hands it over: bare, in a fence with the
\* tag json, in a fence with no tag, in a fence with another tag, and in a
\* fence with whitespace around it.
Wrappings(s) ==
    {s,
     FenceJson \o <<"\n">> \o s \o <<"\n">> \o Fence,
     Fence \o <<"\n">> \o s \o <<"\n">> \o Fence,
     Fence \o <<"J", "S", "O", "N", "\n">> \o s \o <<"\n">> \o Fence,
     <<"\n", " ">> \o FenceJson \o <<"\n">> \o s \o <<"\n">> \o Fence \o <<" ", "\n">>}

RespEmpty ==
    <<>>

RespSorry ==
    <<"s", "o", "r", "r", "y">>

RespList ==
    <<"[", "]">>

RespNull ==
    <<"n", "u", "l", "l">>

RespNumber ==
    <<"4", "2">>

RespString ==
    <<"\"", "J", "o", "\"">>

RespOpenBrace ==
    <<"{">>

RespCloseOpen ==
    <<"}", "{">>

RespEmptyFence ==
    <<Backtick, Backtick, Backtick, "j", "s", "o", "n", "\n", Backtick,
      Backtick, Backtick>>

RespFencedList ==
    <<Backtick, Backtick, Backtick, "j", "s", "o", "n", "\n", "[", "\"",
      "J", "o", "\"", "]", "\n", Backtick, Backtick, Backtick>>

RespTwoObjects ==
    <<"{", "\"", "a", "\"", ":", "1", "}", " ", "{", "\"", "b", "\"", ":",
      "2", "}">>

RespProse ==
    <<"C", "V", ":", " ", "{", "\"", "n", "a", "m", "e", "\"", ":", "\"",
      "J", "o", "\"", "}", " ", "o", "k">>

NoObjectResponses ==
    {RespEmpty, RespSorry, RespList, RespNull, RespNumber, RespString,
     RespOpenBrace, RespCloseOpen, RespEmptyFence, RespFencedList, RespTwoObjects}

\* The responses of the model with the object each was made from, NoneText
\* when it was made from none.
Responses ==
    UNION {{[text |-> w, origin |-> p] :
                w \in UNION {Wrappings(s) : s \in Serialisations(p)}} :
           p \in StructuredCVs}
    \cup {[text |-> t, origin |-> NoneText] : t \in NoObjectResponses \cup {RespProse}}

\* The LLM answered; nothing was parsed yet.
InitParse ==
    /\ Started
    /\ table_service_client = "client"
    /\ bot_roles = <<>>
    /\ \E r \in Responses :
          cv = [stage |-> "response", text |-> r.text, origin |-> r.origin,
                result |-> Raised(None)]

\* Line 1053: cv_data = parse_cv_json(reply_text)
ParseCv ==
    /\ cv.stage = "response"
    /\ cv' = [cv EXCEPT !.stage = "parsed", !.result = parse_cv_json(cv.text)]
    /\ UNCHANGED <<now, store_vars, process_vars, last, reload_vars, cv_outputs, inflight>>

NextParse == ParseCv

SpecParse == InitParse /\ [][NextParse]_vars

(***************************************************************************)
(* Lines 1056-1066 of on_turn: the blob name of a reformat run and the     *)
(* upload.  The clock of the model counts seconds, which is what           *)
(* strftime("%Y%m%d_%H%M%S") keeps of utcnow().                            *)
(***************************************************************************)
\* name.replace(" ", "_")
ReplaceSpaces(name) == [i \in 1..Len(name) |-> IF name[i] = " " THEN "_" ELSE name[i]]

\* f"Meraki_CV_{candidate_name}_{timestamp}.docx"
Filename(name, time) == <<"Meraki_CV_", ReplaceSpaces(name), "_", time, ".docx">>

\* cv_data.get("name", "Candidate") of the runs.
CandidateNames == {<<"J", "o", " ", "B">>, <<"A", "l">>}

\* upload_blob(doc_bytes, overwrite=True): the blob of that name is the
\* document of this run.
UploadCv(name) ==
    /\ cv_outputs.uploads < MaxUploads
    /\ cv_outputs' =
          [blobs |-> {b \in cv_outputs.blobs : b.name # Filename(name, now)}
                     \cup {[name |-> Filename(name, now), candidate |-> name,
                            run |-> cv_outputs.uploads + 1]},
           uploads |-> cv_outputs.uploads + 1]
    /\ UNCHANGED <<now, store_vars, process_vars, last, reload_vars, cv, inflight>>

NextUpload ==
    \/ \E name \in CandidateNames : UploadCv(name)
    \/ Tick

SpecUpload == Init /\ [][NextUpload]_vars

(***************************************************************************)
(* cv_generator.create_meraki_cv.  The document is the sequence of its     *)
(* body paragraphs; a paragraph is its kind, the texts of its runs, its    *)
(* bullet glyph and its left indent in EMU (0 when the code sets none).    *)
(* A dict key that is absent is modelled by the default the code reads it  *)
(* with.  A bullet item is a str or a dict {text, sub_bullets}.            *)
(***************************************************************************)
\* docx.shared.Cm, on tenths of a centimetre: 360000 EMU to the centimetre.
Cm(tenths) == tenths * 36000

TAB_LEFT_POS == Cm(45)

Para(kind, text) == [kind |-> kind, text |-> text, glyph |-> "", left_indent |-> 0]

Indented(kind, text, left_indent) == [kind |-> kind, text |-> text, glyph |-> "", left_indent |-> left_indent]

add_blank_line == <<Para("blank", <<>>)>>

add_section_header(text) == <<Para("section_header", <<text>>)>>

add_field_line(label, value) == <<Para("field", <<label, value>>)>>

add_tabbed_line(left_text, right_text) == <<Indented("tabbed", <<left_text, right_text>>, TAB_LEFT_POS)>>

add_indented_line(text) == <<Indented("indented", <<text>>, TAB_LEFT_POS)>>

add_position_line(position) == <<Indented("position", <<"Position:", position>>, TAB_LEFT_POS)>>

add_work_section_header(header_text) == <<Para("work_header", <<header_text>>)>>

\* The glyphs of the four levels: filled bullet, en dash, angle, circle.
BulletGlyphs == <<"bullet", "en_dash", "angle", "circle">>

Min(a, b) == IF a < b THEN a ELSE b

\* add_bullet_point that starts the glyphs again below the fourth level.
add_bullet_point_cycling(text, level) ==
    <<[kind |-> "bullet", text |-> <<text>>,
       glyph |-> BulletGlyphs[(level % Len(BulletGlyphs)) + 1],
       left_indent |-> Cm(6) + Cm(5 * level)]>>

\* add_bullet_point with the glyph and the indent of level 0 at every level.
add_bullet_point_flat(text, level) ==
    <<[kind |-> "bullet", text |-> <<text>>, glyph |-> BulletGlyphs[1],
       left_indent |-> Cm(6)]>>

\* add_bullet_point: bullets[min(level, 3)], Cm(0.6) + Cm(0.5 * level).
add_bullet_point(text, level) ==
    <<[kind |-> "bullet", text |-> <<text>>,
       glyph |-> BulletGlyphs[Min(level, Len(BulletGlyphs) - 1) + 1],
       left_indent |-> Cm(6) + Cm(5 * level)]>>

StrBullet(text) == [is_str |-> TRUE, text |-> text, sub_bullets |-> <<>>]

DictBullet(text, sub_bullets) == [is_str |-> FALSE, text |-> text, sub_bullets |-> sub_bullets]

\* add_nested_bullets, and the loop over a list of bullet items.
RECURSIVE add_nested_bullets(_, _)
RECURSIVE add_each_bullet(_, _)
add_nested_bullets(bullet_item, level) ==
    IF bullet_item.is_str THEN add_bullet_point(bullet_item.text, level)
    ELSE (IF bullet_item.text # "" THEN add_bullet_point(bullet_item.text, level) ELSE <<>>)
         \o add_each_bullet(bullet_item.sub_bullets, level + 1)

add_each_bullet(items, level) ==
    IF items = <<>> THEN <<>>
    ELSE add_nested_bullets(Head(items), level) \o add_each_bullet(Tail(items), level)

\* Lines 97-108: the personal details.
personal_details(cv_data) ==
    add_section_header("PERSONAL DETAILS") \o add_blank_line
    \o add_field_line("Name", cv_data.name)
    \o (IF cv_data.location # "" THEN add_field_line("Location", cv_data.location) ELSE <<>>)
    \o (IF cv_data.right_to_work # ""
        THEN add_field_line("Right to Work", cv_data.right_to_work) ELSE <<>>)
    \o (IF cv_data.notice # "" THEN add_field_line("Notice", cv_data.notice) ELSE <<>>)
    \o (IF cv_data.salary_expectations # ""
        THEN add_field_line("Salary expectations", cv_data.salary_expectations) ELSE <<>>)

\* Lines 110-130: the three lines that are always shown.
OrNA(value) == IF value # "" THEN value ELSE "N/A"

always_shown(cv_data) ==
    add_blank_line
    \o <<Para("labelled", <<"IT/Systems: ", OrNA(cv_data.it_systems)>>)>>
    \o <<Para("labelled", <<"Languages: ", OrNA(cv_data.languages)>>)>>
    \o <<Para("labelled", <<"Interests: ", OrNA(cv_data.interests)>>)>>

RECURSIVE qualification_lines(_)
qualification_lines(quals) ==
    IF quals = <<>> THEN <<>>
    ELSE <<[kind |-> "qualification", text |-> <<Head(quals)>>, glyph |-> "minus",
            left_indent |-> Cm(6)]>> \o qualification_lines(Tail(quals))

RECURSIVE indented_lines(_)
indented_lines(details) ==
    IF details = <<>> THEN <<>>
    ELSE add_indented_line(Head(details)) \o indented_lines(Tail(details))

RECURSIVE education_entries(_)
education_entries(education) ==
    IF education = <<>> THEN <<>>
    ELSE add_tabbed_line(Head(education).dates, Head(education).title)
         \o (IF Head(education).institution # ""
             THEN add_indented_line(Head(education).institution) ELSE <<>>)
         \o indented_lines(Head(education).details)
         \o (IF Len(education) > 1 THEN add_blank_line ELSE <<>>)
         \o education_entries(Tail(education))

\* The education section with its header under no condition.
education_section_unconditional(education, professional_qualifications) ==
    add_blank_line \o add_section_header("EDUCATION") \o add_blank_line
    \o (IF professional_qualifications # <<>>
        THEN <<Para("labelled", <<"Professional Qualifications:">>)>>
             \o qualification_lines(professional_qualifications) \o add_blank_line
        ELSE <<>>)
    \o education_entries(education)

\* Lines 132-175: the education section.
education_section(education, professional_qualifications) ==
    IF education # <<>> \/ professional_qualifications # <<>>
    THEN add_blank_line \o add_section_header("EDUCATION") \o add_blank_line
         \o (IF professional_qualifications # <<>>
             THEN <<Para("labelled", <<"Professional Qualifications:">>)>>
                  \o qualification_lines(professional_qualifications) \o add_blank_line
             ELSE <<>>)
         \o education_entries(education)
    ELSE <<>>

\* Lines 177-187: the profile, given as its parts between blank lines.
profile_section(profile) ==
    IF profile # <<>>
    THEN add_blank_line \o add_section_header("CANDIDATE PROFILE") \o add_blank_line
         \o [i \in 1..Len(profile) |-> Para("justified", <<profile[i]>>)]
    ELSE <<>>

RECURSIVE work_sections(_)
work_sections(sections) ==
    IF sections = <<>> THEN <<>>
    ELSE (IF Head(sections).header # ""
          THEN add_blank_line \o add_work_section_header(Head(sections).header)
          ELSE <<>>)
         \o add_each_bullet(Head(sections).content, 0)
         \o work_sections(Tail(sections))

RECURSIVE work_entries(_)
work_entries(work_exp) ==
    IF work_exp = <<>> THEN <<>>
    ELSE LET job == Head(work_exp)
         IN  add_tabbed_line(job.dates, job.company)
             \o (IF job.position # "" THEN add_position_line(job.position) ELSE <<>>)
             \o (IF job.sections # <<>> THEN work_sections(job.sections)
                 ELSE add_each_bullet(job.bullets, 0))
             \o (IF Len(work_exp) > 1 THEN add_blank_line ELSE <<>>)
             \o work_entries(Tail(work_exp))

\* Lines 189-231: the work experience.
work_experience_section(work_exp) ==
    IF work_exp # <<>>
    THEN add_blank_line \o add_blank_line \o add_section_header("WORK EXPERIENCE")
         \o add_blank_line \o work_entries(work_exp)
    ELSE <<>>

RECURSIVE other_items(_)
other_items(other_info) ==
    IF other_info = <<>> THEN <<>>
    ELSE LET item == Head(other_info)
         IN  (IF item.content # <<>>
              THEN <<Para("labelled",
                          IF item.category # "" THEN <<item.category, ":">> ELSE <<>>)>>
                   \o [i \in 1..Len(item.content) |-> Para("plain", <<item.content[i]>>)]
              ELSE <<>>)
             \o other_items(Tail(other_info))

\* Lines 233-281: the other information, for items with simple content.
other_information_section(other_info) ==
    IF other_info # <<>>
    THEN add_blank_line \o add_section_header("OTHER INFORMATION") \o add_blank_line
         \o other_items(other_info)
    ELSE <<>>

\* create_meraki_cv: the paragraphs of the body, the logo first if the file
\* is there.
create_meraki_cv(cv_data, logo_exists) ==
    (IF logo_exists THEN add_blank_line \o <<Para("logo", <<>>)>> \o add_blank_line ELSE <<>>)
    \o personal_details(cv_data)
    \o always_shown(cv_data)
    \o education_section(cv_data.education, cv_data.professional_qualifications)
    \o profile_section(cv_data.profile)
    \o work_experience_section(cv_data.work_experience)
    \o other_information_section(cv_data.other_information)

(***************************************************************************)
(* StructuredCVs handed to create_meraki_cv.                               *)
(***************************************************************************)
EduMA == [dates |-> "2019", title |-> "MA Event Design", institution |-> "UAL", details |-> <<"Merit">>]

EduBA == [dates |-> "2016", title |-> "BA History", institution |-> "", details |-> <<>>]

Educations == {<<>>, <<EduMA>>, <<EduMA, EduBA>>}

Qualifications == {<<>>, <<"ACA", "CFA">>}

\* "a", with "b" below it, with "c" below that.
DeepBullet == DictBullet("a", <<DictBullet("b", <<DictBullet("c", <<>>)>>)>>)

Job(sections, bullets) == [dates |-> "2020 - 2024", company |-> "Acme", position |-> "Analyst", sections |-> sections, bullets |-> bullets]

JobDeep == Job(<<[header |-> "", content |-> <<DeepBullet>>]>>, <<>>)

\* Six levels, "a" to "f", each below the one before.
DeeperBullet ==
    DictBullet("a", <<DictBullet("b", <<DictBullet("c", <<DictBullet("d",
        <<DictBullet("e", <<StrBullet("f")>>)>>)>>)>>)>>)

JobDeeper == Job(<<[header |-> "", content |-> <<DeeperBullet>>]>>, <<>>)

JobFlat == Job(<<[header |-> "Strategy", content |-> <<StrBullet("x"), StrBullet("y")>>]>>, <<>>)

JobLegacy == Job(<<>>, <<StrBullet("x"), DictBullet("", <<StrBullet("y")>>)>>)

WorkExperiences == {<<>>, <<JobDeep>>, <<JobDeeper>>, <<JobFlat>>, <<JobLegacy, JobFlat>>}

Profiles == {<<>>, <<"Seasoned analyst.", "Open to travel.">>}

OtherInformations == {<<>>, <<[category |-> "Awards", content |-> <<"Prize 2021">>]>>}

CvData(education, quals, work_exp, profile, other_info) ==
    [name |-> "Jo B", location |-> "Leeds", right_to_work |-> "", notice |-> "1 month",
     salary_expectations |-> "", it_systems |-> "", languages |-> "French",
     interests |-> "", education |-> education, professional_qualifications |-> quals,
     profile |-> profile, work_experience |-> work_exp, other_information |-> other_info]

CvDatas ==
    {CvData(e, q, w, p, o) : e \in Educations, q \in Qualifications,
                             w \in WorkExperiences, p \in Profiles,
                             o \in OtherInformations}

\* The response was parsed; the document is not made yet.
InitDocument ==
    /\ Started
    /\ table_service_client = "client"
    /\ bot_roles = <<>>
    /\ \E d \in CvDatas, logo_exists \in BOOLEAN :
          cv = [stage |-> "data", cv_data |-> d, logo_exists |-> logo_exists,
                doc |-> <<>>]

\* Line 1054: doc_bytes = create_meraki_cv(cv_data)
CreateCv ==
    /\ cv.stage = "data"
    /\ cv' = [cv EXCEPT !.stage = "document",
                        !.doc = create_meraki_cv(cv.cv_data, cv.logo_exists)]
    /\ UNCHANGED <<now, store_vars, process_vars, last, reload_vars, cv_outputs, inflight>>

NextDocument == CreateCv

SpecDocument == InitDocument /\ [][NextDocument]_vars


(***************************************************************************)
(* Vocabulary of the claims, stated from the routing rules and not from    *)
(* the functions above.                                                    *)
(***************************************************************************)
\* The trigger and the aliases of every role, lowercased, in registry order.
RECURSIVE TriggerList(_)
TriggerList(roles) ==
    IF roles = <<>> THEN <<>>
    ELSE <<Lower(Head(roles).trigger)>>
         \o [i \in 1..Len(Head(roles).aliases) |-> Lower(Head(roles).aliases[i])]
         \o TriggerList(Tail(roles))

\* The role a word selects, None when the word is no trigger and no alias.
WordRole(word) ==
    IF \E i \in 1..Len(get_default_roles) :
           \/ Lower(get_default_roles[i].trigger) = word
           \/ \E j \in 1..Len(get_default_roles[i].aliases) : Lower(get_default_roles[i].aliases[j]) = word
    THEN get_default_roles[CHOOSE i \in 1..Len(get_default_roles) :
           \/ Lower(get_default_roles[i].trigger) = word
           \/ \E j \in 1..Len(get_default_roles[i].aliases) : Lower(get_default_roles[i].aliases[j]) = word].id
    ELSE None

FirstWord(text) == TakeWord(LStrip(Lower(text)))

\* The role the first word of a text names, with or without a '/' or '!'.
FirstWordRole(text) ==
    LET word == FirstWord(text)
    IN  IF word = <<>> THEN None
        ELSE IF WordRole(word) # None THEN WordRole(word)
        ELSE IF word[1] \in {"/", "!"} THEN WordRole(Tail(word))
        ELSE None

\* The text after its first word, as the user typed it.
RemainingText(text) ==
    LET t == LStrip(text)
    IN  Strip(SubSeq(t, Len(TakeWord(t)) + 1, Len(t)))

IsHelpKeyword(text) == Strip(Lower(text)) \in HelpWords

\* The texts of the attachments that were extracted.
ExtractedFiles(attachments) ==
    {i \in 1..Len(attachments) :
        /\ extract_text_from_attachment(attachments[i]) # <<>>
        /\ extract_text_from_attachment(attachments[i])[1] # "["}

\* Non-empty text, or a successfully extracted file.
UsableContent(log) == log.text # <<>> \/ ExtractedFiles(log.atts) # {}

\* The turn handed content to the LLM under log.role.
Processed(log) == log.kind \in {"reply", "document", "ai_error"}

LLMCalled(log) == Processed(log) \/ log.refine.made \/ log.classified

PendingEntity == pending_table[row_key(last.conv)]

RefinementEntity == refinement_table[row_key(last.conv)]

TurnDone == last.kind # "init"

(***************************************************************************)
(* C1.  After a role-selection button turn with no content for role R at   *)
(* T0, the very next turn of the conversation, if it carries usable        *)
(* content at T1, is processed with role R whatever the content when       *)
(* T1 - T0 < 300, and is not routed through R and ends at the help card    *)
(* when T1 - T0 > 300.  Read for the claim: the next turn is a content     *)
(* turn (no button, no help keyword), and past the TTL the help card is    *)
(* owed only when the content itself names no role.                        *)
(***************************************************************************)
C1_NextContentGoesToPendingRole ==
    [][ ( /\ last.kind = "await"
          /\ last' # last
          /\ last'.conv = last.conv
          /\ last'.card = NoCard
          /\ ~IsHelpKeyword(last'.text)
          /\ UsableContent(last') )
        => LET T0 == pending_table[row_key(last.conv)].Timestamp_
           IN  /\ now - T0 < 300 => Processed(last') /\ last'.role = last.role
               /\ now - T0 > 300 =>
                      /\ last'.pending_read \in {None, "NotRead"}
                      /\ last'.resolved[1] = None => last'.kind \in {"unsure", "menu"}
      ]_vars

(***************************************************************************)
(* C2.  After a turn whose text is a help keyword or whose button is       *)
(* start_new, get_pending_role and get_refinement_state both return None   *)
(* on the next read, whatever was stored before.                           *)
(***************************************************************************)
C2_HelpClearsEveryPendingIntent ==
    (TurnDone /\ (IsHelpKeyword(last.text) \/ last.card.action = "start_new"))
    => /\ get_pending_role(pending_table, last.conv, now)[1] = None
       /\ ~get_refinement_state(refinement_table, last.conv, now)[1].present


(***************************************************************************)
(* C3.  With an active refinement context and no button, a text whose      *)
(* first word is a trigger or alias (with or without '/' or '!') clears    *)
(* the refinement context and is routed to that trigger's role; a text     *)
(* whose first word is no trigger stays in refinement: refine_output is    *)
(* called with the stored output and the text as the instruction.          *)
(***************************************************************************)
\* The context the turn found is gone: no row, or the row this turn wrote.
OldContextGone ==
    \/ ~RefinementEntity.present
    \/ /\ last.kind = "reply"
       /\ RefinementEntity.RoleId = last.role
       /\ RefinementEntity.Output.id = last.reply.text.id

RoutedToFirstWordRole ==
    /\ Processed(last)
    /\ last.role = FirstWordRole(last.text)
    /\ ~last.refine.made
    /\ OldContextGone

StaysInRefinement ==
    /\ last.kind = "refine"
    /\ last.refine.original_output = last.pre_refinement.output
    /\ last.refine.user_instruction = last.text
    /\ RefinementEntity.present

InRefinementTextTurn ==
    /\ TurnDone
    /\ last.pre_refinement.present
    /\ last.card = NoCard
    /\ last.text # <<>>

\* C3 as claimed: every text whose first word is no trigger is an instruction.
C3_RefinementTriggerOrInstruction ==
    InRefinementTextTurn
    => IF FirstWordRole(last.text) # None
       THEN RoutedToFirstWordRole
       ELSE StaysInRefinement

\* C3 as amended: a help keyword is no instruction; it clears the refinement
\* context and shows the help card.
C3_RefinementTriggerOrInstructionUnlessHelp ==
    InRefinementTextTurn
    => IF FirstWordRole(last.text) # None
       THEN RoutedToFirstWordRole
       ELSE IF IsHelpKeyword(last.text)
       THEN last.kind = "help" /\ ~RefinementEntity.present
       ELSE StaysInRefinement

C3_Witness ==
    /\ InRefinementTextTurn
    /\ last.text = TxtReformat
    /\ last.role = "reformat"
    /\ last.kind = "document"

(***************************************************************************)
(* C4.  With no refinement context and no pending role, a text whose first *)
(* word is a trigger or alias (with or without '/' or '!') is processed    *)
(* with that role, and the content handed to the LLM is the text with the  *)
(* first word stripped, with or without attachments (with attachments:     *)
(* that remaining text followed by the file content).                      *)
(***************************************************************************)
C4_TriggerStrippedFromContent ==
    ( /\ TurnDone
      /\ ~last.pre_refinement.present
      /\ last.pre_pending = None
      /\ last.card = NoCard
      /\ FirstWordRole(last.text) # None
      /\ RemainingText(last.text) # <<>> )
    => /\ Processed(last)
       /\ last.role = FirstWordRole(last.text)
       /\ last.content =
              combined_input_of(RemainingText(last.text), attachment_texts(last.atts))

(***************************************************************************)
(* C5.  When the first word is no trigger, resolve_role returns the role   *)
(* of the first trigger, in registry order, that occurs anywhere in the    *)
(* lowercased message, with the full original message as content; a        *)
(* positional match is taken before the scan is reached.                   *)
(***************************************************************************)
Triggers == TriggerList(get_default_roles)

ScanHits(text) == {i \in 1..Len(Triggers) : Contains(Triggers[i], Strip(Lower(text)))}

FirstHit(text) == CHOOSE i \in ScanHits(text) : \A j \in ScanHits(text) : i <= j

C5_ScanTakesFirstTriggerInRegistryOrder ==
    ( /\ TurnDone
      /\ last.resolved[1] # "NotCalled"
      /\ ~(last.card.action = "select_role" /\ HasRole(get_default_roles, last.card.role))
      /\ last.text # <<>> )
    => IF FirstWordRole(last.text) # None
       THEN last.resolved[1] = FirstWordRole(last.text)
       ELSE ScanHits(last.text) # {}
            => last.resolved = <<WordRole(Triggers[FirstHit(last.text)]), last.text>>

\* "bad cv": "ad" comes first in the text, "cv" comes first in the registry.
C5_Witness ==
    /\ last.text = TxtBadCv
    /\ Cardinality(ScanHits(TxtBadCv)) > 1
    /\ FirstWordRole(TxtBadCv) = None
    /\ last.resolved = <<"spec", TxtBadCv>>

(***************************************************************************)
(* C6.  After a refinement turn the stored refinement context holds the    *)
(* output returned by that refine call under the same role id as before,   *)
(* so the k-th instruction is applied to the output of the (k-1)-th call.  *)
(***************************************************************************)
\* C6 as claimed: the stored output is the returned output.
C6_RefinementIsIterative ==
    [][ (last'.kind = "refine" /\ last' # last)
        => /\ refinement_table'[row_key(last'.conv)].present
           /\ refinement_table'[row_key(last'.conv)].Output = last'.refine.result
           /\ refinement_table'[row_key(last'.conv)].RoleId = last'.pre_refinement.role_id
           /\ last'.refine.role_id = last'.pre_refinement.role_id
           /\ last'.refine.original_output = refinement_table[row_key(last'.conv)].Output
           /\ last.kind = "refine" => last'.refine.original_output = last.refine.result
      ]_vars

\* The first n characters of an opaque text.
FirstChars(text, n) == [id |-> text.id, len |-> IF text.len <= n THEN text.len ELSE n]

\* C6 as amended: the stored output is the returned output cut to its first
\* 60000 characters, and that is what the next instruction is applied to.
C6_RefinementIsIterativeOnStoredPrefix ==
    [][ (last'.kind = "refine" /\ last' # last)
        => /\ refinement_table'[row_key(last'.conv)].present
           /\ refinement_table'[row_key(last'.conv)].Output
                  = FirstChars(last'.refine.result, 60000)
           /\ refinement_table'[row_key(last'.conv)].RoleId = last'.pre_refinement.role_id
           /\ last'.refine.role_id = last'.pre_refinement.role_id
           /\ last'.refine.original_output = refinement_table[row_key(last'.conv)].Output
           /\ last.kind = "refine"
                  => last'.refine.original_output = FirstChars(last.refine.result, 60000)
      ]_vars

\* A refinement turn on a baseline that only a refine call can have stored,
\* answered with more than 60000 characters.
C6_Witness ==
    /\ last.kind = "refine"
    /\ last.refine.original_output.id = "Error refining output: e"
    /\ last.refine.result.len > 60000
    /\ RefinementEntity.Output.len = 60000


(***************************************************************************)
(* C7.  A button press that selects a registered role, with no text and    *)
(* no attachments, makes no LLM call, stores that role as the pending      *)
(* role of the conversation and sends "send me the content"; a button      *)
(* naming an unregistered role stores nothing and ends at the menu.        *)
(***************************************************************************)
C7_BareButtonArmsPendingRole ==
    ( /\ TurnDone
      /\ last.card.action = "select_role"
      /\ last.text = <<>>
      /\ last.atts = <<>> )
    => IF \E i \in 1..Len(get_default_roles) : get_default_roles[i].id = last.card.role
       THEN /\ last.kind = "await"
            /\ last.role = last.card.role
            /\ last.sent = <<"send_me_the_content">>
            /\ ~LLMCalled(last)
            /\ PendingEntity.present
            /\ PendingEntity.Role = last.card.role
       ELSE /\ last.kind = "menu"
            /\ ~LLMCalled(last)
            /\ PendingEntity.present
                   => PendingEntity.Role = last.pre_pending /\ PendingEntity.Role # last.card.role

C7_Witness ==
    /\ TurnDone
    /\ last.card = [action |-> "select_role", role |-> "jd"]
    /\ last.text = <<>>
    /\ last.atts = <<>>
    /\ last.kind = "await"
    /\ PendingEntity.present
    /\ PendingEntity.Role = "jd"

(***************************************************************************)
(* C8.  A button press that arrives together with content (text or a       *)
(* file) is processed at once with the pressed role, and after the turn    *)
(* the conversation has no pending role.                                   *)
(***************************************************************************)
C8_ButtonWithContentLeavesNoPendingRole ==
    ( /\ TurnDone
      /\ last.card.action = "select_role"
      /\ \E i \in 1..Len(get_default_roles) : get_default_roles[i].id = last.card.role
      /\ ~IsHelpKeyword(last.text)
      /\ UsableContent(last) )
    => /\ Processed(last)
       /\ last.role = last.card.role
       /\ get_pending_role(pending_table, last.conv, now)[1] = None

(***************************************************************************)
(* C9.  With no refinement context and no pending role, a text that is a   *)
(* trigger and nothing else, without attachments, makes no LLM call: the   *)
(* role is stored as pending and the conversation is asked for content.    *)
(***************************************************************************)
C9_BareTriggerArmsPendingRole ==
    ( /\ TurnDone
      /\ last.card = NoCard
      /\ last.atts = <<>>
      /\ ~last.pre_refinement.present
      /\ last.pre_pending = None
      /\ FirstWordRole(last.text) # None
      /\ RemainingText(last.text) = <<>> )
    => /\ ~LLMCalled(last)
       /\ last.kind \in {"await", "ask_content"}
       /\ PendingEntity.present
       /\ PendingEntity.Role = FirstWordRole(last.text)

(***************************************************************************)
(* C10.  A turn with a readable file, no text, no button and no pending    *)
(* role is processed with the "reformat" role on the file's content.       *)
(***************************************************************************)
C10_FileAloneIsReformatted ==
    ( /\ TurnDone
      /\ last.text = <<>>
      /\ last.card = NoCard
      /\ ExtractedFiles(last.atts) # {}
      /\ ~last.pre_refinement.present
      /\ last.pre_pending = None )
    => /\ Processed(last)
       /\ last.role = "reformat"
       /\ last.kind = "document"


(***************************************************************************)
(* C11.  A turn whose text, trimmed and lowercased, is one of help, /help, *)
(* menu, start, hi, hello, hey is answered with the help card and nothing  *)
(* else, whatever button, attachments, pending role or refinement context  *)
(* come with it, and makes no LLM call.                                    *)
(***************************************************************************)
C11_HelpKeywords ==
    {<<"h", "e", "l", "p">>, <<"/", "h", "e", "l", "p">>, <<"m", "e", "n", "u">>,
     <<"s", "t", "a", "r", "t">>, <<"h", "i">>, <<"h", "e", "l", "l", "o">>,
     <<"h", "e", "y">>}

\* C11: a help keyword is answered with the help card and nothing else.
C11_HelpKeywordWinsOverEveryRule ==
    (TurnDone /\ Strip(Lower(last.text)) \in C11_HelpKeywords)
    => /\ last.kind = "help"
       /\ last.sent = <<"help_card">>
       /\ ~LLMCalled(last)


(***************************************************************************)
(* C12.  The intent classifier is consulted exactly when no button, no     *)
(* first-word trigger and no substring trigger resolves the text.  If its  *)
(* answer is a registered trigger or alias the turn is processed with that *)
(* role and the full message; if it answers "none", something else, or     *)
(* fails, resolve_role returns no role and the turn goes to the pending    *)
(* role and then to the help card, without raising.                        *)
(***************************************************************************)
\* The role the classifier named, None when it named none or failed.
AnsweredRole(answer) ==
    IF answer \in {NoneText, NotAsked} THEN None ELSE WordRole(Strip(Lower(answer)))

ClassifierIsLastResort ==
    last.classified
    <=> /\ last.resolved[1] # "NotCalled"
        /\ last.text # <<>>
        /\ ~(last.card.action = "select_role" /\ HasRole(get_default_roles, last.card.role))
        /\ FirstWordRole(last.text) = None
        /\ ScanHits(last.text) = {}

\* C12: the classifier is the last resort; its answer routes or falls through.
C12_ClassifierRoutesOrFallsThrough ==
    TurnDone
    => /\ ClassifierIsLastResort
       /\ last.classified
          => IF AnsweredRole(last.answer) # None
             THEN /\ last.resolved = <<AnsweredRole(last.answer), last.text>>
                  /\ Processed(last)
                  /\ last.role = AnsweredRole(last.answer)
                  /\ last.content = combined_input_of(last.text, attachment_texts(last.atts))
                  /\ last.pending_read = "NotRead"
             ELSE /\ last.resolved = <<None, NoneText>>
                  /\ last.pending_read = last.pre_pending
                  /\ IF last.pre_pending # None
                     THEN Processed(last) /\ last.role = last.pre_pending
                     ELSE last.kind = "unsure"

C12_Witness ==
    /\ last.classified
    /\ last.text = TxtShorter
    /\ last.answer = <<"J", "D", "\n">>
    /\ last.kind = "reply"
    /\ last.role = "jd"


(***************************************************************************)
(* C13.  on_turn never raises because of missing, expired or malformed     *)
(* conversation state: whatever pending role and refinement context are    *)
(* stored, absent or expired, the turn ends with a prompt for content, the *)
(* help card or a processing result.                                       *)
(***************************************************************************)
C13_TurnNeverRaises ==
    TurnDone
    => /\ last.kind # "KeyError"
       /\ last.kind \in {"help", "exit_refinement", "start_new", "await", "ask_content",
                         "unsure", "menu", "error_echo", "refine", "reply", "document",
                         "ai_error"}


(***************************************************************************)
(* C14.  get_pending_role returns the stored role only while now minus the *)
(* stored timestamp is below 300 s, get_refinement_state the stored        *)
(* context only while it is below 1800 s; a read that finds an entry at or *)
(* past its TTL returns None and deletes the entry, so that a second read  *)
(* at the same instant returns None too.                                   *)
(***************************************************************************)
\* The turn read the refinement state: every turn that passed the help and
\* the refinement-button branches.
RefinementRead(log) == log.kind \notin {"help", "exit_refinement", "start_new"}

\* C14: every read of a turn honours the two TTLs and deletes what expired.
C14_ReadsHonourTheTTLs ==
    [][ last' # last
        => LET k == row_key(last'.conv)
               p == pending_table[k]
               r == refinement_table[k]
           IN  /\ last'.pending_read # "NotRead"
                  => IF p.present /\ now - p.Timestamp_ < 300
                     THEN last'.pending_read = p.Role
                     ELSE /\ last'.pending_read = None
                          /\ ~pending_table'[k].present
                          /\ get_pending_role(pending_table', last'.conv, now)[1] = None
               /\ RefinementRead(last')
                  => IF r.present /\ now - r.Timestamp_ < 1800
                     THEN last'.pre_refinement =
                              [present |-> TRUE, output |-> r.Output, role_id |-> r.RoleId]
                     ELSE /\ ~last'.pre_refinement.present
                          /\ \/ ~refinement_table'[k].present
                             \/ /\ last'.kind = "reply"
                                /\ refinement_table'[k].Timestamp_ = now
                          /\ last'.kind # "reply"
                             => ~get_refinement_state(refinement_table', last'.conv, now)[1].present
      ]_vars

\* A turn found both rows of its conversation past their TTL: both reads
\* returned None and both rows are gone.
C14_Witness ==
    /\ last.pending_read = None
    /\ last.stored.pending
    /\ last.stored.refinement
    /\ ~last.pre_refinement.present
    /\ ~PendingEntity.present
    /\ ~RefinementEntity.present


(***************************************************************************)
(* C15.  With the table store unconfigured, or with every call on it       *)
(* failing, get_pending_role and get_refinement_state return None, the set *)
(* and clear functions return without raising and change nothing, the turn *)
(* proceeds as one with no pending state, and no text about the state      *)
(* store is sent.                                                          *)
(***************************************************************************)
\* What on_turn sends in a turn that had no pending role and no refinement
\* context to read.
StatelessTurnTexts ==
    {<<"help_card">>, <<"great_let_me_know", "help_card">>, <<"send_me_the_content">>,
     <<"please_send_content">>, <<"not_sure_help_card">>, <<"extraction_error">>,
     <<"error_calling_ai">>, <<"reply_with_refinement_card">>,
     <<"error_storage_not_configured">>, <<"download_link">>,
     <<"error_parsing_cv_data">>, <<"error_generating_document">>}

\* C15: without a working store every turn is a stateless turn.
C15_StoreFailureIsStateless ==
    [][ last' # last
        => /\ last'.pre_pending = None
           /\ ~last'.pre_refinement.present
           /\ last'.pending_read \in {None, "NotRead"}
           /\ pending_table' = pending_table
           /\ refinement_table' = refinement_table
           /\ last'.kind \in {"help", "exit_refinement", "start_new", "await",
                              "ask_content", "unsure", "menu", "error_echo", "reply",
                              "document", "ai_error"}
           /\ ~last'.refine.made
           /\ last'.sent \in StatelessTurnTexts
      ]_vars

\* Rows are in both tables, fresh, and the store raises on every call: a
\* text without a trigger was not taken as the content of the stored role
\* nor as a refinement instruction.
C15_Witness ==
    /\ table_service_client = "failing"
    /\ last.stored.pending
    /\ last.stored.refinement
    /\ now < 300
    /\ last.text = TxtShorter
    /\ last.card = NoCard
    /\ last.pending_read = None
    /\ last.kind \in {"unsure", "menu"}


(***************************************************************************)
(* C16.  The store holds at most one pending-role entry and at most one    *)
(* refinement entry per conversation, whatever sequence of set, get and    *)
(* clear ran; clear on an absent entry raises nothing and changes nothing. *)
(***************************************************************************)
PendingRowsOf(c) ==
    {k \in RowKeys : pending_table[k].present /\ pending_table[k].ConversationId = c}

RefinementRowsOf(c) ==
    {k \in RowKeys : refinement_table[k].present /\ refinement_table[k].ConversationId = c}

\* C16: one row per conversation in each table; clear on absent is a no-op.
C16_OneEntryPerConversationAndKind ==
    \A c \in Conversations :
        /\ Cardinality(PendingRowsOf(c)) <= 1
        /\ Cardinality(RefinementRowsOf(c)) <= 1
        /\ PendingRowsOf(c) = {} => clear_pending_role(pending_table, c) = pending_table
        /\ RefinementRowsOf(c) = {}
           => clear_refinement_state(refinement_table, c) = refinement_table

(***************************************************************************)
(* C17.  Conversation state survives a restart of the process: a pending   *)
(* role or a refinement context written by one process for a conversation  *)
(* is what a get for that conversation returns in any later process while  *)
(* the entry is unexpired.                                                 *)
(***************************************************************************)
C17_StateSurvivesRestart ==
    [][ last' # last
        => LET c == last'.conv
           IN  /\ \A k \in PendingRowsOf(c) :
                     now - pending_table[k].Timestamp_ < 300
                     => last'.pre_pending = pending_table[k].Role
               /\ \A k \in RefinementRowsOf(c) :
                     now - refinement_table[k].Timestamp_ < 1800
                     => /\ last'.pre_refinement.present
                        /\ last'.pre_refinement.output = refinement_table[k].Output
      ]_vars


(***************************************************************************)
(* C18.  get_roles serves the in-memory cache while it is non-empty and    *)
(* younger than 300 s; otherwise it reloads from the BotRoles table; when  *)
(* the reload fails or finds no active role it returns the stale cache if  *)
(* there is one and otherwise the seven built-in roles spec, profile, ad,  *)
(* jd, pitch, outreach, reformat.                                          *)
(***************************************************************************)
CacheKept ==
    /\ roles_cache' = roles_cache
    /\ roles_cache_timestamp' = roles_cache_timestamp

\* C18: fresh cache, else reload, else stale cache, else the seven defaults.
C18_CachePolicy ==
    /\ [i \in 1..Len(get_default_roles) |-> get_default_roles[i].id]
           = <<"spec", "profile", "ad", "jd", "pitch", "outreach", "reformat">>
    /\ [][ last' # last
           => IF roles_cache # <<>> /\ now - roles_cache_timestamp < 300
              THEN last'.roles = roles_cache /\ CacheKept
              ELSE IF ActiveRoles(bot_roles) # <<>> /\ ~last'.load_raised
                   THEN
                      /\ \A i \in 1..Len(bot_roles) :
                            ~bot_roles[i].IsActive
                            => ~HasRole(last'.roles, bot_roles[i].RowKey)
                      /\ last'.roles = ActiveRoles(bot_roles)
                      /\ roles_cache' = last'.roles
                      /\ roles_cache_timestamp' = now
                   ELSE
                      /\ last'.roles = IF roles_cache # <<>> THEN roles_cache
                                       ELSE get_default_roles
                      /\ CacheKept
         ]_vars

\* A turn at 300 (it found the pending role written at 0 expired) was
\* served the mapping cached at 0: the cache was 300 s old and the reload
\* raised or found no active role.
C18_Witness ==
    /\ TurnDone
    /\ last.stored.pending
    /\ last.pending_read = None
    /\ now = 300
    /\ roles_cache_timestamp = 0
    /\ roles_cache # <<>>
    /\ last.roles = roles_cache


(***************************************************************************)
(* C19.  A reload of the registry is all-or-nothing: while a load is       *)
(* part-way, and when it raises, the cached mapping stays exactly as it    *)
(* was; a successful load replaces the whole mapping in one step by the    *)
(* active records of the table, none marked inactive; a caller going       *)
(* through the mapping while a load runs sees the complete mapping it was  *)
(* handed, old or new, never entries of both.                              *)
(***************************************************************************)
C19_CacheOnlyReplacedWhole ==
    [][ /\ loader.pc = "loading" /\ loader.next <= Len(loader.entities) => CacheKept
        /\ loader.pc = "loading" /\ loader'.pc = "idle" /\ loader.roles = <<>> => CacheKept
        /\ roles_cache' # roles_cache
           => /\ loader.pc = "loading"
              /\ loader.next > Len(loader.entities)
              /\ roles_cache' = ActiveRoles(loader.entities)
              /\ \A i \in 1..Len(loader.entities) :
                    ~loader.entities[i].IsActive
                    => ~HasRole(roles_cache', loader.entities[i].RowKey)
      ]_vars

C19_ReaderSeesOneMapping ==
    reader.pc = "reading"
    => /\ reader.got \in Registries
       /\ ReaderView = reader.got
       /\ reader.seen = SubSeq(reader.got, 1, Len(reader.seen))

\* C19: the cache is only replaced whole and a reader sees one mapping.
C19_ReloadIsAllOrNothing ==
    C19_CacheOnlyReplacedWhole /\ []C19_ReaderSeesOneMapping

\* A reader was handed the mapping {jd, temp}; while it went through it a
\* load replaced the cache by {jd}; the reader has seen both old entries.
C19_Witness ==
    /\ reader.pc = "reading"
    /\ ~reader.aliased
    /\ Len(reader.got) = 2
    /\ reader.seen = reader.got
    /\ Len(roles_cache) = 1
    /\ loader.pc = "idle"


(***************************************************************************)
(* C20.  No message turn is silently dropped: every turn sends at least    *)
(* one outbound message, and a turn that reaches processing ends with the  *)
(* generated result (text or document link) or with an error message the   *)
(* user sees, whether the LLM call, the JSON parsing, the document         *)
(* generation, the storage configuration or the upload failed.             *)
(***************************************************************************)
ResultTexts ==
    {<<"reply_with_refinement_card">>, <<"refined_with_refinement_card">>,
     <<"download_link">>}

ErrorTexts ==
    {<<"error_calling_ai">>, <<"error_parsing_cv_data">>,
     <<"error_generating_document">>, <<"error_storage_not_configured">>,
     <<"extraction_error">>}

\* C20: every turn sends something; a processing turn a result or an error.
C20_NoTurnSilentlyDropped ==
    TurnDone
    => /\ last.sent # <<>>
       /\ last.role # None /\ last.kind # "await"
          => last.sent \in ResultTexts \cup ErrorTexts \cup {<<"please_send_content">>}


(***************************************************************************)
(* C21.  parse_cv_json is a left inverse of fencing: applied to the        *)
(* serialisation of a well-formed StructuredCV object, bare or in a        *)
(* triple-backtick fence with or without a language tag, it returns that   *)
(* object; applied to input from which no JSON object can be recovered it  *)
(* raises ValueError and returns no value.                                 *)
(***************************************************************************)
\* Some part of the text, from a brace to a brace, is a JSON object.
ObjectRecoverable(t) ==
    \E i \in 1..Len(t), j \in 1..Len(t) :
        t[i] = "{" /\ t[j] = "}" /\ json_loads(SubSeq(t, i, j)).ok

C21_FencedObjectComesBack ==
    cv.stage = "parsed" /\ cv.origin # NoneText => cv.result = Returned(cv.origin)

\* C21: a serialised object comes back; input without an object raises.
C21_ParseInvertsFencing ==
    /\ C21_FencedObjectComesBack
    /\ cv.stage = "parsed" /\ ~ObjectRecoverable(cv.text)
       => cv.result = Raised("ValueError")


(***************************************************************************)
(* C22.  The blob names of reformat runs for the same candidate are        *)
(* unique: any two runs for one candidate name upload under different      *)
(* names, so that no run overwrites the document of another.               *)
(***************************************************************************)
C22_NoRunOverwritesAnother ==
    \A run \in 1..cv_outputs.uploads : \E b \in cv_outputs.blobs : b.run = run


(***************************************************************************)
(* C23.  For every StructuredCV whose education list is empty the document *)
(* has no EDUCATION section header, whatever the other fields, the         *)
(* professional qualifications included, hold.                             *)
(***************************************************************************)
HasEducationHeader(doc) ==
    \E i \in 1..Len(doc) : doc[i].kind = "section_header" /\ doc[i].text = <<"EDUCATION">>

\* C23 as stated: no education entries, no EDUCATION header.
C23_NoEducationNoHeader ==
    cv.stage = "document" /\ cv.cv_data.education = <<>> => ~HasEducationHeader(cv.doc)

\* C23, amended: the header is there exactly when there is an education
\* entry or a professional qualification to put under it.
C23_HeaderOnlyWithContent ==
    cv.stage = "document"
    => (HasEducationHeader(cv.doc)
        <=> cv.cv_data.education # <<>> \/ cv.cv_data.professional_qualifications # <<>>)

C23_Witness ==
    /\ cv.stage = "document"
    /\ cv.cv_data.education = <<>>
    /\ cv.cv_data.professional_qualifications = <<>>
    /\ cv.cv_data.work_experience # <<>>
    /\ ~HasEducationHeader(cv.doc)

(***************************************************************************)
(* C24.  A StructuredCV with one work_experience entry whose content holds *)
(* a bullet nested three levels deep renders three bullet paragraphs, with *)
(* three pairwise distinct glyphs and three pairwise distinct, increasing  *)
(* left indents, one per level, the parent before the child.               *)
(***************************************************************************)
BulletParagraphs(doc) == SelectSeq(doc, LAMBDA p : p.kind = "bullet")

\* C24: three levels, three glyphs, three increasing indents, in order.
C24_ThreeLevelsThreeGlyphsThreeIndents ==
    cv.stage = "document" /\ cv.cv_data.work_experience = <<JobDeep>>
    => LET b == BulletParagraphs(cv.doc)
       IN  /\ Len(b) = 3
           /\ <<b[1].text, b[2].text, b[3].text>> = <<<<"a">>, <<"b">>, <<"c">>>>
           /\ Cardinality({b[1].glyph, b[2].glyph, b[3].glyph}) = 3
           /\ b[1].left_indent < b[2].left_indent
           /\ b[2].left_indent < b[3].left_indent

C24_Witness ==
    /\ cv.stage = "document"
    /\ cv.cv_data.work_experience = <<JobDeep>>
    /\ Len(BulletParagraphs(cv.doc)) = 3

(***************************************************************************)
(* Several files in one message.                                           *)
(***************************************************************************)
\* The attachments of a list whose extraction ended in a bracketed report.
FailedFiles(attachments) ==
    {i \in 1..Len(attachments) :
        StartsWith(extract_text_from_attachment(attachments[i]), <<"[">>)}

\* The completion calls the turn made for its content.
ProcessCycles(log) == IF Processed(log) THEN 1 ELSE 0

\* The turn came to the content of a role.
ReachedProcessing(log) == Processed(log) \/ log.kind = "error_echo"

\* C25: a processed turn with N > 1 extracted files sends one opening
\* message, a progress message and an outcome for each file, and one summary
\* (2N + 2 messages), and runs one completion cycle per file.
C25_FilesProcessedOneByOne ==
    (TurnDone /\ Processed(last) /\ Cardinality(ExtractedFiles(last.atts)) > 1)
        => /\ Len(last.sent) = 2 * Cardinality(ExtractedFiles(last.atts)) + 2
           /\ ProcessCycles(last) = Cardinality(ExtractedFiles(last.atts))

\* C26: in a turn that came to processing with files that extracted and
\* files that did not, the extracted files are processed and the failure is
\* reported to the user.
C26_FailureReportedSiblingsProcessed ==
    (/\ TurnDone
     /\ ReachedProcessing(last)
     /\ ExtractedFiles(last.atts) # {}
     /\ FailedFiles(last.atts) # {})
        => /\ Processed(last)
           /\ \E i \in 1..Len(last.sent) : last.sent[i] = "extraction_error"

(***************************************************************************)
(* Overlapping turns of one conversation and of two.                       *)
(***************************************************************************)
\* A turn of the conversation took a step: a turn handled in one piece,
\* which leaves its log, or a turn under way, which moved.
Acted(conversation_id) ==
    \/ inflight' = inflight /\ last'.conv = conversation_id
    \/ \E t \in TurnIds :
          /\ inflight'[t] # inflight[t]
          /\ inflight'[t].log.conv = conversation_id

\* A row of either partition changes only in a step of a turn of the
\* conversation the row key belongs to.
RowsOfOthersKept ==
    \A k \in RowKeys :
        (pending_table'[k] # pending_table[k] \/ refinement_table'[k] # refinement_table[k])
            => \E c \in RaceConversations : row_key(c) = k /\ Acted(c)

\* A finished turn that read a pending role and had usable content was
\* processed under that role, whatever the other turns did in between.
ReadersProcessed ==
    \A t \in TurnIds :
        (/\ inflight'[t].pc = "done"
         /\ inflight'[t].pending # None
         /\ inflight'[t].combined_input # <<>>)
            => /\ Processed(inflight'[t].log)
               /\ inflight'[t].log.role = inflight'[t].pending

\* C27: every turn that read the pending role is processed with it, also
\* when another turn of the conversation read the same row before it was
\* cleared; a turn changes no row of a conversation with another row key.
C27_OverlappingTurnsShareConversationsDoNot ==
    [][RowsOfOthersKept /\ ReadersProcessed]_vars

\* Two turns of one conversation have both read the one pending role, the
\* second while the first had not cleared it, and both were processed under
\* it; the other conversation holds a pending role of its own meanwhile.
C27_Witness ==
    /\ inflight[1].pc = "done" /\ inflight[2].pc = "done"
    /\ inflight[1].log.conv = inflight[2].log.conv
    /\ inflight[1].pending = "jd" /\ inflight[2].pending = "jd"
    /\ inflight[1].overlapped \/ inflight[2].overlapped
    /\ Processed(inflight[1].log) /\ inflight[1].log.role = "jd"
    /\ Processed(inflight[2].log) /\ inflight[2].log.role = "jd"
    /\ \E c \in RaceConversations :
          /\ c # inflight[1].log.conv
          /\ pending_table[row_key(c)].present

(***************************************************************************)
(* Activities that are not messages.                                       *)
(***************************************************************************)
\* C28: an activity of a type other than "message" is answered with nothing:
\* no message is sent, no completion is called, and the pending-role rows,
\* the refinement rows and the role cache stay as they were.
C28_OtherActivitiesIgnored ==
    [][last'.activity # "message"
          => /\ last'.sent = <<>>
             /\ ~LLMCalled(last')
             /\ UNCHANGED <<pending_table, refinement_table, roles_cache,
                            roles_cache_timestamp>>]_vars

\* A conversationUpdate that carries a text arrived while the conversation
\* had a pending role and the cache was loaded from the table.
C28_Witness ==
    /\ last.activity = "conversationUpdate"
    /\ last.kind = "ignored"
    /\ last.text # <<>>
    /\ PendingEntity.present
    /\ roles_cache # <<>>

(***************************************************************************)
(* The pending role is used once.                                          *)
(***************************************************************************)
\* The turn took the role it read from the pending row and went on to the
\* processing under it.
RoutedThroughPending(log) ==
    /\ log.pending_read \notin {"NotRead", None}
    /\ log.kind \in {"reply", "document", "ai_error", "KeyError"}

\* C29: after a turn that was routed through the pending role the row of the
\* conversation is gone, whether the processing ended in an answer, in an LLM
\* error or in an exception, and the turn that follows it is not routed
\* through a pending role.
C29_PendingRoleUsedOnce ==
    [][/\ RoutedThroughPending(last')
             => ~pending_table'[row_key(last'.conv)].present
       /\ (RoutedThroughPending(last) /\ last' # last)
             => ~RoutedThroughPending(last')]_vars

\* A turn was routed through the pending role it found and its processing
\* failed; the row is gone.
C29_Witness ==
    /\ RoutedThroughPending(last)
    /\ last.stored.pending
    /\ last.kind \in {"ai_error", "KeyError"}
    /\ ~PendingEntity.present

(***************************************************************************)
(* An explicit trigger during refinement.                                  *)
(***************************************************************************)
\* The turn left refinement on an explicit trigger and was processed.
LeftRefinementOnTrigger(log) ==
    /\ log.pre_refinement.present
    /\ log.text # <<>>
    /\ log.card.action = None
    /\ log.resolved[1] = "NotCalled"
    /\ Processed(log)

\* What resolve_role makes of the turn's text when no refinement state is
\* stored: a first-word trigger is settled before the classifier is asked.
ResolvedWithoutRefinement(log) == resolve_role(log.roles, log.text, log.card, NoneText)

ContentWithoutRefinement(log) ==
    LET content_for_role == ResolvedWithoutRefinement(log)[2]
        combined_input == combined_input_of(log.text, attachment_texts(log.atts))
    IN  IF attachment_texts(log.atts) # <<>> THEN combined_input
        ELSE IF Truthy(content_for_role) THEN content_for_role
        ELSE combined_input

\* C30: a turn that leaves refinement on an explicit trigger is processed
\* under the role and with the content it would have had with no refinement
\* state stored, the trigger word stripped.
C30_TriggerResolvedAsWithoutRefinement ==
    (TurnDone /\ LeftRefinementOnTrigger(last))
        => /\ last.role = ResolvedWithoutRefinement(last)[1]
           /\ last.content = ContentWithoutRefinement(last)

(***************************************************************************)
(* Free text during refinement.                                            *)
(***************************************************************************)
\* Neither step 3 nor step 4 of resolve_role ran in the turn.
NoScanNoClassifier(log) ==
    /\ log.resolved[1] = "NotCalled"
    /\ ~log.classified
    /\ log.answer = NotAsked

\* C31 as claimed: with a refinement context, a text and no button, a text
\* whose first word is no trigger is never scanned or classified and is
\* always handled as a refinement instruction.
C31_FreeTextAlwaysRefines ==
    (InRefinementTextTurn /\ FirstWordRole(last.text) = None)
        => NoScanNoClassifier(last) /\ StaysInRefinement

\* C31 as amended: the text is never scanned or classified; it is handled
\* as a refinement instruction unless it is a help keyword, which shows the
\* help card and clears the context.
C31_FreeTextRefinesUnlessHelp ==
    (InRefinementTextTurn /\ FirstWordRole(last.text) = None)
        => /\ NoScanNoClassifier(last)
           /\ IF IsHelpKeyword(last.text)
              THEN last.kind = "help" /\ ~RefinementEntity.present
              ELSE StaysInRefinement

\* "please spec this", with a trigger after the first word, was taken for
\* an instruction.
C31_Witness ==
    /\ InRefinementTextTurn
    /\ last.text = TxtMid
    /\ FirstWordRole(last.text) = None
    /\ last.kind = "refine"
    /\ last.refine.made
    /\ ~last.classified

(***************************************************************************)
(* Glyph and indent at every depth.                                        *)
(***************************************************************************)
\* The document of the six-level bullet is made.
SixLevelsMade == cv.stage = "document" /\ cv.cv_data.work_experience = <<JobDeeper>>

\* 0.6 cm and 0.5 cm more for each level, in EMU.
IndentAtDepth(depth) == 216000 + 180000 * depth

IndentsGrowByDepth(b) ==
    /\ Len(b) = 6
    /\ \A k \in 1..6 : b[k].left_indent = IndentAtDepth(k - 1)

\* C32 as claimed: the glyph of depth d is the glyph d mod 4 of the four,
\* so depth 4 has the glyph of depth 0 again, and the indent is
\* 0.6 cm + 0.5 cm * d.
C32_GlyphCyclesIndentGrows ==
    SixLevelsMade
        => LET b == BulletParagraphs(cv.doc)
           IN  /\ IndentsGrowByDepth(b)
               /\ \A k \in 1..6 : b[k].glyph = BulletGlyphs[((k - 1) % 4) + 1]

\* C32 as amended: the glyph of depth d is the glyph d of the four for
\* d < 3 and the fourth, the open circle, for every deeper level; the indent
\* is 0.6 cm + 0.5 cm * d.
C32_GlyphClampsIndentGrows ==
    SixLevelsMade
        => LET b == BulletParagraphs(cv.doc)
           IN  /\ IndentsGrowByDepth(b)
               /\ \A k \in 1..6 :
                     b[k].glyph = BulletGlyphs[IF k < 4 THEN k ELSE 4]

C32_Witness ==
    /\ SixLevelsMade
    /\ Len(BulletParagraphs(cv.doc)) = 6
    /\ BulletParagraphs(cv.doc)[5].text = <<"e">>
    /\ BulletParagraphs(cv.doc)[5].glyph = "circle"

(***************************************************************************)
(* Isolation of the conversations in the BotState table.                   *)
(***************************************************************************)
\* The rows of a partition that were written for the conversation.
OwnedBy(table, conversation_id) ==
    {k \in RowKeys : table[k].present /\ table[k].ConversationId = conversation_id}

\* The row the turn of the step read was written for its own conversation.
ReadOwnRow(table, log) ==
    /\ table[row_key(log.conv)].present
    /\ table[row_key(log.conv)].ConversationId = log.conv

\* C33: a turn of one conversation leaves the rows written for every other
\* conversation as they are, and the pending role or the refinement state it
\* is given comes from a row written for its own conversation.
C33_ConversationsIsolated ==
    [][/\ \A c \in CollideConversations \ {last'.conv} :
             /\ \A k \in OwnedBy(pending_table, c) : pending_table'[k] = pending_table[k]
             /\ \A k \in OwnedBy(refinement_table, c) :
                   refinement_table'[k] = refinement_table[k]
       /\ (last' # last /\ last'.pre_pending # None)
             => ReadOwnRow(pending_table, last')
       /\ (last' # last /\ last'.pre_refinement.present)
             => ReadOwnRow(refinement_table, last')]_vars

(***************************************************************************)
(* The reformat role and refinement.                                       *)
(***************************************************************************)
\* The turn was processed under the reformat role and the LLM answered.
ReformatAnswered(log) ==
    /\ log.role = "reformat"
    /\ Processed(log)
    /\ log.reply.made

\* C34: a reformat turn whose LLM call answered ends in the document
\* branch: no refinement context is stored for the conversation and the
\* LLM text is not sent as the reply, with the built-in roles and with the
\* roles of the BotRoles table.
C34_ReformatNeverEntersRefinement ==
    (TurnDone /\ ReformatAnswered(last))
        => /\ last.kind = "document"
           /\ ~RefinementEntity.present
           /\ \A i \in 1..Len(last.sent) : last.sent[i] # "reply_with_refinement_card"

(***************************************************************************)
(* A refine call that fails.                                               *)
(***************************************************************************)
\* The refine call of the turn raised: refine_output returned its error text.
RefineFailed(log) ==
    /\ log.kind = "refine"
    /\ log.refine.made
    /\ log.refine.result.id = "Error refining output: e"

\* C35: a refinement turn whose refine call fails leaves the stored output
\* of the conversation as it was, and the error text is never the stored
\* output.
C35_FailedRefineKeepsBaseline ==
    [][(last' # last /\ RefineFailed(last'))
          => /\ refinement_table'[row_key(last'.conv)]
                    = refinement_table[row_key(last'.conv)]
             /\ refinement_table'[row_key(last'.conv)].Output.id
                    # "Error refining output: e"]_vars

(***************************************************************************)
(* Text of the user that looks like a report of the extraction layer.      *)
(***************************************************************************)
\* The turn carries no file and its text begins with "[".
TypedBracket(log) ==
    /\ log.atts = <<>>
    /\ StartsWith(log.text, <<"[">>)

\* C36: a typed text that begins with "[" is not sent back as an extraction
\* error, and with a pending role stored it is processed under that role.
C36_TypedBracketIsContent ==
    (TurnDone /\ TypedBracket(last))
        => /\ last.kind # "error_echo"
           /\ last.pending_read \notin {"NotRead", None} => RoutedThroughPending(last)

(***************************************************************************)
(* Extraction reports and the content of the LLM call.                     *)
(***************************************************************************)
\* C37: the content a turn hands to the LLM call of its role holds the
\* bracketed report of none of the attachments that failed extraction.
C37_NoExtractionReportInContent ==
    (TurnDone /\ Processed(last))
        => \A i \in FailedFiles(last.atts) :
               ~Contains(extract_text_from_attachment(last.atts[i]), last.content)

(***************************************************************************)
(* The refinement TTL runs from the latest refinement turn.                *)
(***************************************************************************)
\* The step is a turn with a text that is no help keyword and has no
\* trigger as its first word, sent while the stored row is younger than the
\* TTL.
FollowUpWithinTTL ==
    /\ last' # last
    /\ last'.card = NoCard
    /\ last'.text # <<>>
    /\ ~IsHelpKeyword(last'.text)
    /\ FirstWordRole(last'.text) = None
    /\ refinement_table[row_key(last'.conv)].present
    /\ now - refinement_table[row_key(last'.conv)].Timestamp_ < REFINEMENT_TTL_SECONDS

\* C38: a follow-up sent less than the TTL after the row was last written
\* is a refinement turn, however old the first output is, and a refinement
\* turn writes the row again with the time of the turn.
C38_RefinementTTLSlides ==
    [][/\ FollowUpWithinTTL => last'.kind = "refine"
       /\ (last' # last /\ last'.kind = "refine")
             => /\ refinement_table'[row_key(last'.conv)].present
                /\ refinement_table'[row_key(last'.conv)].Timestamp_ = now']_vars

\* A refinement turn 2000 s after the first output, which is more than the
\* TTL: the row it found was written by the refinement turn at 1000 s.
C38_Witness ==
    /\ last.kind = "refine"
    /\ now = 2000
    /\ now >= REFINEMENT_TTL_SECONDS
    /\ RefinementEntity.present
    /\ RefinementEntity.Timestamp_ = 2000

(***************************************************************************)
(* C39.  Every role id on_turn looks up is a key of the mapping it is      *)
(* looked up in: a role id read from a stored pending role, or resolved    *)
(* earlier in the turn, is found in the mapping get_roles returns, also    *)
(* after the cache expired and was reloaded with another set of active     *)
(* roles; a turn whose role is not in the mapping ends at the help card.   *)
(***************************************************************************)
\* The turn took a role id to the registry: roles[role_id] was evaluated.
LookedUp(log) == log.role # None /\ log.kind \in {"await", "reply", "document", "ai_error", "KeyError"}

\* C39: a looked-up role id is in the turn's mapping, and a turn whose pending
\* role left the registry shows the help card.
C39_LookedUpRoleIsInMapping ==
    TurnDone
    => /\ LookedUp(last) => HasRole(last.roles, last.role)
       /\ (/\ last.pending_read \notin {"NotRead", None}
           /\ ~HasRole(last.roles, last.pending_read))
          => last.kind \in {"help", "menu"}

=============================================================================
